---- MODULE Spec2Model ----
(***************************************************************************)
(* A model of fsearch.py, the "graph-search-redo" engine of AI-Racetrack.  *)
(*                                                                         *)
(* One run of fsearch.main is a state machine: the arguments of the call   *)
(* are fixed in Init, and the actions are the steps of main's loop.  The   *)
(* callbacks next_states, goal_test and h are opaque to the engine; here   *)
(* each is the table of the answers it has given so far, and an answer     *)
(* for a state not yet in the table is drawn from a bounded set when the   *)
(* code makes the call (the callbacks are pure: an answer once given is    *)
(* given again).  The three scenarios of the specification are problems    *)
(* whose tables are complete from the start.                               *)
(*                                                                         *)
(* Node objects live in the sequence nodes, in creation order; a reference *)
(* to a node (in frontier, explored, a parent field, ...) is its index in  *)
(* that sequence.  The id of a node is a field of the node, set from the   *)
(* global counter node_count as Node.__init__ sets it.                     *)
(*                                                                         *)
(* Spec is one call of fsearch.main.  SpecFaulty adds callbacks that       *)
(* raise; SpecAgain, a caller that calls main again and again; SpecOpt     *)
(* runs 'uc' and 'a*' on problems known in full; SpecRace wraps the call   *)
(* in racetrack.main; SpecNested gives main a heuristic that itself runs   *)
(* a call of main; SpecLive runs main on graphs known in full, cycles      *)
(* among them; SpecHeur is the grid heuristics of sample_heuristics.py,    *)
(* proj1.py and h_proj1.py with their module globals, called search after  *)
(* search; SpecMoves is the one-dimensional racer that nmoves.py counts    *)
(* moves for; SpecTrack is a car on a track of walls, asked for its        *)
(* successors (racetrack.next_states) and driven to one of them.           *)
(***************************************************************************)
EXTENDS Integers, Sequences, FiniteSets, TLC

\* ------------------------------------------------------------- bounds
\* States of the generic problems are 0 .. NumStates-1.
NumStates == 3
\* A generic next_states answer lists at most MaxSucc (state, cost) pairs.
MaxSucc == 2
\* Transition costs of the generic problems are 0 .. MaxCost.
MaxCost == 1
\* Heuristic values are 0 .. MaxH.
MaxH == 1
\* The next_states answers of a generic problem list at most MaxEdges
\* transitions in all.
MaxEdges == 3
\* A run is followed until it has generated MaxNodes nodes.
MaxNodes == 5
\* A caller makes at most MaxCalls calls of main, one after the other.
MaxCalls == 3
\* A search that a heuristic runs generates 1 .. MaxNested nodes.
MaxNested == 2

\* The tracks of the heuristics have the columns 0 .. MaxX.
MaxX == 2
\* The caller of a heuristic holds at most MaxLists wall lists.
MaxLists == 2
\* The caller of a heuristic makes at most MaxRuns searches.
MaxRuns == 2

\* A racer starts with a speed in -MaxV .. MaxV, is to cover a distance in
\* -MaxD .. MaxD, and is followed for MaxMoves moves.
MaxV == 2
MaxD == 3
MaxMoves == 6

\* The walls of a track and the car's starting point have their
\* coordinates in 0 .. MaxPos; a track has at most MaxWalls walls; the car
\* is driven for MaxDrives moves.
MaxPos == 1
MaxWalls == 2
MaxDrives == 2

\* ---------------------------------------------------- program constants
\* Python's None: the h of a node made without a heuristic, the parent of
\* the root (fsearch.py, line 176: Node(s0,None,0,None)).
None == -1
\* The highest verbosity level main's docstring defines.
MaxVerbose == 4
\* float('inf') and float('-inf') (h_proj1.py, lines 18-19): beyond every
\* distance and every value of the heuristics.
infinity == 1000000000
negainfinity == -1000000000
\* The False that g_fline and g_walls hold until a grid is computed
\* (sample_heuristics.py, lines 56-57).
Unset == -2

States == 0 .. (NumStates - 1)
Costs == 0 .. MaxCost
HVals == 0 .. MaxH
Pairs == States \X Costs
SuccLists == UNION {[1 .. k -> Pairs] : k \in 0 .. MaxSucc}

\* The strategy identifiers of sort_options.
Strategies == {"bf", "df", "uc", "gbf", "a*"}
\* The identifier racetrack.main accepts besides ("don't try to solve the
\* problem, just display it"): to fsearch.main, a key sort_options lacks.
NoStrategy == "none"

\* ------------------------------------------------------- the scenarios
\* Scenario A: the linear chain 0 -> 1 -> 2 -> 3, every step of cost 1.
ChainStates == 0 .. 3
ChainNext == [s \in ChainStates |-> IF s < 3 THEN <<(<<s + 1, 1>>)>> ELSE <<>>]
ChainGoal == [s \in ChainStates |-> s = 3]
\* Scenario B: A = 0, B = 1, C = 2, D = 3.
SuperNext == [s \in ChainStates |->
                 CASE s = 0 -> << <<1, 5>>, <<2, 1>> >>
                   [] s = 2 -> << <<1, 1>> >>
                   [] s = 1 -> << <<3, 1>> >>
                   [] OTHER -> <<>>]
SuperGoal == [s \in ChainStates |-> s = 3]
\* Scenario C: no successors anywhere, no goal.
DeadEndNext == [s \in ChainStates |-> <<>>]
DeadEndGoal == [s \in ChainStates |-> FALSE]
\* The generic problem: nothing is known of the callbacks yet.
Unasked == <<>>

Problems ==
    { [next_states |-> Unasked,     goal_test |-> Unasked],
      [next_states |-> ChainNext,   goal_test |-> ChainGoal],
      [next_states |-> SuperNext,   goal_test |-> SuperGoal],
      [next_states |-> DeadEndNext, goal_test |-> DeadEndGoal] }

VARIABLES
    \* the arguments of main
    s0, strategy, h_given, verbose,
    \* the callbacks, as the tables of the answers given so far
    next_states, goal_test, h,
    \* main's position: "main", "select", "goal_test", "expand", and the
    \* three ways a run ends: "Success", "Failure", "raised" ("idle" while
    \* racetrack.main has not called it)
    pc,
    \* the exception a raised run ends with ("" otherwise): "TypeError",
    \* "KeyError", or "CallbackError" for what a callback raised
    exc,
    \* the global node counter and the Node objects, in creation order
    node_count, nodes,
    \* main's locals
    prunes, frontier, explored, x,
    \* the four groups the last call of expand returned
    new, n_prune, f_prune, e_prune,
    \* the list of states a successful run returns
    result,
    \* the calls of main that have returned or raised before this one, in
    \* order: the arguments and the outcome of each
    history,
    \* racetrack.main: its position ("direct" when fsearch.main is called
    \* without it, else "call", "search", "report", "returned", "raised")
    \* and its local solution
    rt_pc, solution,
    \* the heuristic module in use ("sample_heuristics", "proj1" or
    \* "h_proj1") and its globals g_fline, g_walls, grid and, in h_proj1.py,
    \* find
    variant, g_fline, g_walls, grid, find,
    \* the wall lists the caller of the heuristic holds: list objects, which
    \* the heuristic is handed by reference
    lists,
    \* the searches the caller has begun, and whether the next call of the
    \* heuristic is the first of its search
    run, first,
    \* the finish line and the walls the grid was last computed for
    grid_of,
    \* the last call of the heuristic: the search it was made in and
    \* whether it was the first call of that search; what it returned
    \* (value) and what it returns as the first call after the import of
    \* the module (expected); whether its finish line or walls differed
    \* from those of the grid, or the grid was empty (differs); whether it
    \* computed the grid and whether it read it; and whether the grid it
    \* left is the one of its own finish line and walls (keyed)
    last,
    \* a racer on a line without walls: the speed it starts with and the
    \* distance it is to cover; what nmoves returned for them; and where
    \* the racer is, its speed, and the moves it has made
    speed0, goal_dist, estimate, position, speed, moves,
    \* a car on a track: its state ((x,y),(vx,vy)), the list of walls, what
    \* the next_states callback of racetrack.main last returned, and the
    \* moves the car has made
    car, track, answer, drives

vars == <<s0, strategy, h_given, verbose, next_states, goal_test, h, pc, exc,
          node_count, nodes, prunes, frontier, explored, x,
          new, n_prune, f_prune, e_prune, result, history, rt_pc, solution,
          variant, g_fline, g_walls, grid, find, lists, run, first,
          grid_of, last, speed0, goal_dist, estimate, position, speed,
          moves, car, track, answer, drives>>

args == <<s0, strategy, h_given, verbose>>

\* What belongs to the caller of fsearch.main.
caller == <<history, rt_pc, solution>>

\* What belongs to the racetrack domain: the racer of nmoves.py and the car
\* of racetrack.next_states.
racing == <<speed0, goal_dist, estimate, position, speed, moves,
            car, track, answer, drives>>

\* What belongs to the heuristic module and to its caller, and the domain.
heuristics == <<variant, g_fline, g_walls, grid, find, lists, run, first,
                grid_of, last, racing>>

\* ---------------------------------------------------------- Node model
\* A counter that is never advanced.
NextCount_stuck(count) == count

\* node_count += 1; self.id = node_count
NextCount(count) == count + 1

\* Node.__init__ with line 27 as self.g = cost: the cost of the last
\* transition instead of the cost of the path.
Node_last_cost(state, parent, cost, h_value, count, heap) ==
    [state    |-> state,
     parent   |-> parent,
     id       |-> NextCount(count),
     depth    |-> IF parent # None THEN heap[parent].depth + 1 ELSE 0,
     g        |-> cost,
     children |-> <<>>,
     h        |-> h_value]

\* Node.__init__: the new object, given the counter before the call.
Node(state, parent, cost, h_value, count, heap) ==
    [state    |-> state,
     parent   |-> parent,
     id       |-> NextCount(count),
     depth    |-> IF parent # None THEN heap[parent].depth + 1 ELSE 0,
     g        |-> IF parent # None THEN heap[parent].g + cost ELSE cost,
     children |-> <<>>,
     h        |-> h_value]

\* Node creation that repairs in place: the nodes already on the heap with
\* the state of the new node and a larger g take its parent, depth and g.
Create_repair(state, parent, cost, h_value, mem) ==
    LET n   == Node(state, parent, cost, h_value, mem.count, mem.heap)
        ref == Len(mem.heap) + 1
        old == IF parent # None
               THEN [mem.heap EXCEPT ![parent].children = Append(@, ref)]
               ELSE mem.heap
        fix == [r \in DOMAIN old |->
                   IF old[r].state = state /\ old[r].g > n.g
                   THEN [old[r] EXCEPT !.parent = parent,
                                       !.depth = n.depth,
                                       !.g = n.g]
                   ELSE old[r]]
    IN  [heap |-> Append(fix, n), count |-> NextCount(mem.count)]

\* The heap and the counter after Node(state, parent, cost, h_value): the
\* new object is appended, and registered as a child of its parent.
Create(state, parent, cost, h_value, mem) ==
    LET n   == Node(state, parent, cost, h_value, mem.count, mem.heap)
        ref == Len(mem.heap) + 1
        old == IF parent # None
               THEN [mem.heap EXCEPT ![parent].children = Append(@, ref)]
               ELSE mem.heap
    IN  [heap |-> Append(old, n), count |-> NextCount(mem.count)]

\* getpath without its path.reverse(): from y back to the root.
RECURSIVE getpath_unreversed(_, _)
getpath_unreversed(y, heap) ==
    IF heap[y].parent # None
    THEN <<y>> \o getpath_unreversed(heap[y].parent, heap)
    ELSE <<y>>

\* getpath with its loop as "while y.parent != None": the root, which has
\* no parent, is left out.
RECURSIVE getpath_rootless(_, _)
getpath_rootless(y, heap) ==
    IF heap[y].parent # None
    THEN Append(getpath_rootless(heap[y].parent, heap), y)
    ELSE <<>>

\* getpath(y): the references from the root to y.
RECURSIVE getpath(_, _)
getpath(y, heap) ==
    IF heap[y].parent # None
    THEN Append(getpath(heap[y].parent, heap), y)
    ELSE <<y>>

\* sort_options with 'a*' ordering by h alone, as 'gbf' does.
key_func_greedy(strat, n) ==
    CASE strat = "bf"  -> n.id
      [] strat = "df"  -> 0 - n.id
      [] strat = "uc"  -> n.g
      [] strat = "gbf" -> n.h
      [] strat = "a*"  -> n.h

\* sort_options with 'uc' ordering by id, as 'bf' does.
key_func_arrival(strat, n) ==
    CASE strat = "bf"  -> n.id
      [] strat = "df"  -> 0 - n.id
      [] strat = "uc"  -> n.id
      [] strat = "gbf" -> n.h
      [] strat = "a*"  -> n.g + n.h

\* ------------------------------------------------------ Strategy table
\* sort_options[strategy][1], the key function.  With no heuristic a
\* node's h is None: 'gbf' then compares None with None and 'a*' adds None
\* to g, both a TypeError in Python; no run reaches either, because without
\* a heuristic the root is the only node ever made (see Expand).
key_func(strat, n) ==
    CASE strat = "bf"  -> n.id
      [] strat = "df"  -> 0 - n.id
      [] strat = "uc"  -> n.g
      [] strat = "gbf" -> n.h
      [] strat = "a*"  -> n.g + n.h

Key(strat, heap, r) == key_func(strat, heap[r])

\* An unstable sort: an element goes before the elements of its own key.
RECURSIVE Insert_unstable(_, _, _, _)
Insert_unstable(r, sorted, strat, heap) ==
    IF sorted = <<>> THEN <<r>>
    ELSE IF Key(strat, heap, Head(sorted)) < Key(strat, heap, r)
         THEN <<Head(sorted)>> \o Insert_unstable(r, Tail(sorted), strat, heap)
         ELSE <<r>> \o sorted

\* list.sort(key=key_func): Python's sort is stable, so an element goes
\* behind every element of a key less than or equal to its own that was
\* before it in the list.
RECURSIVE Insert(_, _, _, _)
Insert(r, sorted, strat, heap) ==
    IF sorted = <<>> THEN <<r>>
    ELSE IF Key(strat, heap, Head(sorted)) <= Key(strat, heap, r)
         THEN <<Head(sorted)>> \o Insert(r, Tail(sorted), strat, heap)
         ELSE <<r>> \o sorted

\* No sort at all: the list as it is.
Sort_skipped(list, strat, heap) == list

RECURSIVE Sort(_, _, _)
Sort(list, strat, heap) ==
    IF list = <<>> THEN <<>>
    ELSE Insert(list[Len(list)],
                Sort(SubSeq(list, 1, Len(list) - 1), strat, heap),
                strat, heap)

Range(list) == {list[i] : i \in 1 .. Len(list)}

\* A filter that removes nothing.
Without_kept(list, gone) == list

\* [m for m in list if not m in gone]
Without(list, gone) == SelectSeq(list, LAMBDA m : m \notin Range(gone))

\* ------------------------------------------------------ Dominance pruner
\* n_prune with > for >= in its first two lines: a new node of the key of
\* an explored or frontier node of its state is kept.
Dominated_strict(m, cand, front, expl, strat, heap) ==
    \/ \E n \in Range(expl) :
          /\ heap[m].state = heap[n].state
          /\ Key(strat, heap, m) > Key(strat, heap, n)
    \/ \E n \in Range(front) :
          /\ heap[m].state = heap[n].state
          /\ Key(strat, heap, m) > Key(strat, heap, n)
    \/ \E n \in Range(cand) :
          /\ heap[m].state = heap[n].state
          /\ Key(strat, heap, m) > Key(strat, heap, n)
    \/ \E n \in Range(cand) :
          /\ heap[m].state = heap[n].state
          /\ Key(strat, heap, m) = Key(strat, heap, n)
          /\ heap[m].id > heap[n].id

\* n_prune without its last line: of two new nodes of one state and one key
\* both are kept.
Dominated_no_tie_break(m, cand, front, expl, strat, heap) ==
    \/ \E n \in Range(expl) :
          /\ heap[m].state = heap[n].state
          /\ Key(strat, heap, m) >= Key(strat, heap, n)
    \/ \E n \in Range(front) :
          /\ heap[m].state = heap[n].state
          /\ Key(strat, heap, m) >= Key(strat, heap, n)
    \/ \E n \in Range(cand) :
          /\ heap[m].state = heap[n].state
          /\ Key(strat, heap, m) > Key(strat, heap, n)

\* n_prune without its first line: a tree search, which keeps a new node
\* whatever explored holds.
Dominated_explored_unseen(m, cand, front, expl, strat, heap) ==
    \/ \E n \in Range(front) :
          /\ heap[m].state = heap[n].state
          /\ Key(strat, heap, m) >= Key(strat, heap, n)
    \/ \E n \in Range(cand) :
          /\ heap[m].state = heap[n].state
          /\ Key(strat, heap, m) > Key(strat, heap, n)
    \/ \E n \in Range(cand) :
          /\ heap[m].state = heap[n].state
          /\ Key(strat, heap, m) = Key(strat, heap, n)
          /\ heap[m].id > heap[n].id

\* The condition of n_prune (lines 119-123): the new node m is dominated.
Dominated(m, cand, front, expl, strat, heap) ==
    \/ \E n \in Range(expl) :
          /\ heap[m].state = heap[n].state
          /\ Key(strat, heap, m) >= Key(strat, heap, n)
    \/ \E n \in Range(front) :
          /\ heap[m].state = heap[n].state
          /\ Key(strat, heap, m) >= Key(strat, heap, n)
    \/ \E n \in Range(cand) :
          /\ heap[m].state = heap[n].state
          /\ Key(strat, heap, m) > Key(strat, heap, n)
    \/ \E n \in Range(cand) :
          /\ heap[m].state = heap[n].state
          /\ Key(strat, heap, m) = Key(strat, heap, n)
          /\ heap[m].id > heap[n].id

\* f_prune and e_prune with the comparison the wrong way round.
Superseded_reversed(m, kept, strat, heap) ==
    \E n \in Range(kept) :
        /\ heap[m].state = heap[n].state
        /\ Key(strat, heap, m) < Key(strat, heap, n)

\* The condition of f_prune and e_prune (lines 127-128, 132-133): the
\* frontier or explored node m is dominated by a retained new node.
Superseded(m, kept, strat, heap) ==
    \E n \in Range(kept) :
        /\ heap[m].state = heap[n].state
        /\ Key(strat, heap, m) > Key(strat, heap, n)

\* ------------------------------------------------------- Expansion step
\* new = [Node(s, x, cost, h(s)) for (s,cost) in next_states(x.state)]:
\* the heap and counter after the comprehension.
RECURSIVE MakeNew(_, _, _, _)
MakeNew(succ, parent, hs, mem) ==
    IF succ = <<>> THEN mem
    ELSE MakeNew(Tail(succ), parent, hs,
                 Create(Head(succ)[1], parent, Head(succ)[2],
                        hs[Head(succ)[1]], mem))

\* expand without lines 131-134: a graph search that never reopens.
expand_no_reopen(cand, front, expl, strat, verb, heap) ==
    LET np   == SelectSeq(cand,
                   LAMBDA m : Dominated(m, cand, front, expl, strat, heap))
        kept == Without(cand, np)
        fp   == SelectSeq(front, LAMBDA m : Superseded(m, kept, strat, heap))
        shown(list) == IF verb >= 2 THEN Sort(list, strat, heap) ELSE list
    IN  [new      |-> shown(kept),
         n_prune  |-> shown(np),
         frontier |-> Sort(Without(front, fp) \o kept, strat, heap),
         f_prune  |-> shown(fp),
         explored |-> expl,
         e_prune  |-> <<>>]

\* expand putting the explored nodes it removes back into the frontier:
\* a reopening of the old node.
expand_requeue(cand, front, expl, strat, verb, heap) ==
    LET np   == SelectSeq(cand,
                   LAMBDA m : Dominated(m, cand, front, expl, strat, heap))
        kept == Without(cand, np)
        fp   == SelectSeq(front, LAMBDA m : Superseded(m, kept, strat, heap))
        ep   == SelectSeq(expl, LAMBDA m : Superseded(m, kept, strat, heap))
        shown(list) == IF verb >= 2 THEN Sort(list, strat, heap) ELSE list
    IN  [new      |-> shown(kept),
         n_prune  |-> shown(np),
         frontier |-> Sort(Without(front, fp) \o kept \o ep, strat, heap),
         f_prune  |-> shown(fp),
         explored |-> Without(expl, ep),
         e_prune  |-> shown(ep)]

\* expand(x, ...) from line 118 on, given the heap after line 116 and the
\* references cand of the nodes line 116 made: the six lists it returns.
\* print_nodetypes (verbose >= 2) sorts the four groups in place before
\* they are returned.
expand(cand, front, expl, strat, verb, heap) ==
    LET np   == SelectSeq(cand,
                   LAMBDA m : Dominated(m, cand, front, expl, strat, heap))
        kept == Without(cand, np)
        fp   == SelectSeq(front, LAMBDA m : Superseded(m, kept, strat, heap))
        ep   == SelectSeq(expl, LAMBDA m : Superseded(m, kept, strat, heap))
        shown(list) == IF verb >= 2 THEN Sort(list, strat, heap) ELSE list
    IN  [new      |-> shown(kept),
         n_prune  |-> shown(np),
         frontier |-> Sort(Without(front, fp) \o kept, strat, heap),
         f_prune  |-> shown(fp),
         explored |-> Without(expl, ep),
         e_prune  |-> shown(ep)]

\* A count of the new nodes discarded only.
Discarded_new_only(out) == Len(out.n_prune)

\* main, line 191: what one call of expand adds to prunes.
Discarded(out) == Len(out.n_prune) + Len(out.f_prune) + Len(out.e_prune)

\* ------------------------------------------------ the heuristic modules
\* The tracks of the heuristics are corridors: the gridpoints (x, 0) and
\* (x, 1) for x in 0 .. MaxX.  A wall ((w,0),(w,1)) crosses the corridor
\* and is written w; the finish line ((f,0),(f,1)) crosses it too and is
\* written f; the car is at (x, 0) with velocity (u, 0), written <<x, u>>.
\* Every wall list holds the wall that ends the corridor, so xmax = MaxX.
\* At the velocities 0 and 1 the fastest stopping distance sd = au*(au-1)/2
\* of the heuristics is 0, and so is the penalty sd/10.0.  The grid is its
\* row y = 0, a sequence: grid[x][0] is grid[x + 1].
Columns == 0 .. MaxX
Velocities == {0, 1}
CarStates == Columns \X Velocities
FinishLines == 0 .. (MaxX - 1)
WallSets == {I \cup {MaxX} : I \in SUBSET (0 .. (MaxX - 1))}
Variants == {"sample_heuristics", "proj1", "h_proj1"}

\* The number a + b * sqrt(2).
Num(a, b) == [units |-> a, root2 |-> b]

Smallest(S) == CHOOSE m \in S : \A n \in S : m <= n
Largest(S) == CHOOSE m \in S : \A n \in S : m >= n

\* racetrack.crash for the move from column a (row 0) to column b (either
\* row): it meets a wall, the ends of the move included.
crash(a, b, walls) ==
    \E w \in walls : (a <= w /\ w <= b) \/ (b <= w /\ w <= a)

\* edistw_to_finish: the straight-line distance from (x, 0) to the finish
\* line, infinity when the line from (x, 0) to each of its points meets a
\* wall.
edistw_to_finish(col, fline, walls) ==
    IF crash(col, fline, walls) THEN infinity
    ELSE IF col < fline THEN fline - col ELSE col - fline

\* range(max(0,x-1), min(xmax+1,x+2)): the columns next to x, and x.
Near(col, xmax) ==
    LET lo == IF col = 0 THEN 0 ELSE col - 1
        hi == IF col >= xmax THEN xmax ELSE col + 1
    IN  [i \in 1 .. (hi - lo + 1) |-> lo + i - 1]

\* The least d = grid[x1][y1] + 1 over the neighbours of x that have a
\* value and can be reached without a crash (sample_heuristics.py, lines
\* 106-116; h_proj1.py, lines 164-173), or g[x] if that is less.
Through(g, col, walls, xmax) ==
    Smallest({g[col + 1]} \cup
             {g[n + 1] + 1 : n \in {m \in Range(Near(col, xmax)) :
                                       /\ g[m + 1] # infinity
                                       /\ ~crash(col, m, walls)}})

\* The loop of edist_grid (lines 101-117): relax until nothing changes.
RECURSIVE Settle(_, _, _)
Settle(g, walls, xmax) ==
    LET next == [i \in DOMAIN g |-> Through(g, i - 1, walls, xmax)]
    IN  IF next = g THEN g ELSE Settle(next, walls, xmax)

\* sample_heuristics.edist_grid: the grid for fline and walls.
edist_grid(fline, walls) ==
    LET xmax == Largest(walls)
    IN  Settle([i \in 1 .. (xmax + 1) |->
                   edistw_to_finish(i - 1, fline, walls)], walls, xmax)

\* The loop of bfs (h_proj1.py, lines 155-179; proj1.py, lines 94-124): pop
\* a point, give it its straight-line distance or, failing that, a distance
\* through a neighbour, and queue its neighbours not yet queued or visited
\* - in proj1.py always, in h_proj1.py if the point got a value.
RECURSIVE Flood(_, _, _, _, _, _)
Flood(queue, visited, g, fline, walls, always) ==
    IF queue = <<>> THEN g
    ELSE LET v    == Head(queue)
             xmax == Len(g) - 1
             d    == edistw_to_finish(v, fline, walls)
             set  == [g EXCEPT ![v + 1] = d]
             got  == [set EXCEPT ![v + 1] =
                         IF d = infinity THEN Through(set, v, walls, xmax)
                         ELSE d]
             seen == visited \cup {v}
             more == IF always \/ got[v + 1] # infinity
                     THEN SelectSeq(Near(v, xmax),
                              LAMBDA i : /\ i \notin Range(Tail(queue))
                                         /\ i \notin seen)
                     ELSE <<>>
         IN  Flood(Tail(queue) \o more, seen, got, fline, walls, always)

\* bfs up to its loop (h_proj1.py, lines 124-152): an all-infinity grid
\* with 0 on the finish line, and the neighbours of the finish line queued.
Seeded(fline, walls, always) ==
    LET xmax == Largest(walls)
        g    == [i \in 1 .. (xmax + 1) |->
                    IF i - 1 = fline THEN 0 ELSE infinity]
    IN  Flood(SelectSeq(Near(fline, xmax), LAMBDA m : g[m + 1] = infinity),
              {fline}, g, fline, walls, always)

\* h_proj1.bfs and proj1.bfs: the grid for fline and walls.
bfs(fline, walls) == Seeded(fline, walls, FALSE)
proj1_bfs(fline, walls) == Seeded(fline, walls, TRUE)

\* What the module of variant v computes as its grid.
GridFor(v, fline, walls) ==
    CASE v = "sample_heuristics" -> edist_grid(fline, walls)
      [] v = "proj1" -> proj1_bfs(fline, walls)
      [] v = "h_proj1" -> bfs(fline, walls)

\* h_walldist below its cache check (lines 74-92), reading grid g; the
\* h_proj1 of proj1.py (lines 40-59) is the same.
h_walldist(state, fline, walls, g) ==
    LET cx      == state[1]
        u       == state[2]
        sd      == (u * (u - 1)) \div 2
        penalty == IF crash(cx, cx + sd, walls) THEN u ELSE 0
        hval    == IF g[cx + 1] = infinity THEN infinity
                   ELSE g[cx + 1] + penalty
    IN  Num(IF hval > sd THEN hval ELSE sd, 0)

\* The h_proj1 of h_proj1.py below its cache check (lines 62-112), reading
\* grid g: minus infinity on a goal state; -100 times the grid value plus
\* the slowest stopping distance sqrt(ssu**2 + ssv**2), with ssv = 1, when
\* the slowest stop lands on the finish line; else the grid value, plus
\* the speed if the car is on a wall.
h_proj1(state, fline, walls, g) ==
    LET cx      == state[1]
        u       == state[2]
        sd      == (u * (u - 1)) \div 2
        penalty == IF crash(cx, cx + sd, walls) THEN u ELSE 0
        ssu     == ((u - 2) * (u - 1)) \div 2
        ssx     == cx + ssu
    IN  IF cx = fline /\ u = 0 THEN Num(negainfinity, 0)
        ELSE IF ~crash(cx, ssx, walls) /\ ssx = fline
        THEN IF ssu = 0 THEN Num(-100 * (g[cx + 1] + 1), 0)
             ELSE Num(-100 * g[cx + 1], -100)
        ELSE Num(IF g[cx + 1] = infinity THEN infinity
                 ELSE g[cx + 1] + penalty, 0)

\* What the heuristic of variant v returns, reading grid g.
Value(v, state, fline, walls, g) ==
    IF v = "h_proj1" THEN h_proj1(state, fline, walls, g)
    ELSE h_walldist(state, fline, walls, g)

\* What the heuristic of variant v returns when it is called as the first
\* thing after its module is imported.
FirstValue(v, state, fline, walls) ==
    Value(v, state, fline, walls, GridFor(v, fline, walls))

\* fline != g_fline or walls != g_walls or grid == [] (sample_heuristics.py
\* line 72, proj1.py line 38, h_proj1.py line 60), for the wall list r:
\* the lists are compared by what they hold now.
Stale(fline, r) ==
    \/ g_fline # fline
    \/ g_walls = Unset
    \/ lists[g_walls] # lists[r]
    \/ grid = <<>>

\* No grid has been computed, no call made.
NoConfig == [fline |-> Unset, walls |-> {}]
NoCall == [run |-> 0, first |-> FALSE, value |-> Num(0, 0),
           expected |-> Num(0, 0), differs |-> FALSE, computed |-> FALSE,
           read |-> FALSE, keyed |-> FALSE]

\* The globals of a heuristic module when it has been imported.
Imported ==
    /\ g_fline = Unset
    /\ g_walls = Unset
    /\ grid = <<>>
    /\ find = FALSE
    /\ grid_of = NoConfig
    /\ last = NoCall

\* No racer and no car are about.
NoRacing ==
    /\ speed0 = 0
    /\ goal_dist = 0
    /\ estimate = <<>>
    /\ position = 0
    /\ speed = 0
    /\ moves = 0
    /\ car = <<<<0, 0>>, <<0, 0>>>>
    /\ track = <<>>
    /\ answer = <<>>
    /\ drives = 0

\* No heuristic module is in use.
NoHeuristic ==
    /\ variant = "sample_heuristics"
    /\ lists = <<>>
    /\ run = 0
    /\ first = FALSE
    /\ Imported
    /\ NoRacing

\* ----------------------------------------------------------------- Init
\* racetrack.main's local solution before line 50 or 53 assigns it.  Once
\* assigned, kind is "None" (line 53), "False" (main returned False) or
\* "path" (main returned the list path).
Unassigned == [kind |-> "unassigned", path |-> <<>>]

Init ==
    /\ s0 = 0
    /\ strategy \in Strategies \cup {NoStrategy}
    /\ h_given \in BOOLEAN
    /\ verbose \in 0 .. MaxVerbose
    /\ \E p \in Problems :
          /\ next_states = p.next_states
          /\ goal_test = p.goal_test
    /\ h = Unasked
    /\ pc = "main"
    /\ exc = ""
    /\ node_count = 0
    /\ nodes = <<>>
    /\ prunes = 0
    /\ frontier = <<>>
    /\ explored = <<>>
    /\ x = None
    /\ new = <<>>
    /\ n_prune = <<>>
    /\ f_prune = <<>>
    /\ e_prune = <<>>
    /\ result = <<>>
    /\ history = <<>>
    /\ rt_pc = "direct"
    /\ solution = Unassigned
    /\ NoHeuristic

\* The answers a callback may give for state s: the one it gave before, or
\* any of the bounded set.
Answers(table, s, fresh) ==
    IF s \in DOMAIN table THEN {table[s]} ELSE fresh

\* The number of transitions the answers for the states D list.
RECURSIVE Listed(_, _)
Listed(table, D) ==
    IF D = {} THEN 0
    ELSE LET d == CHOOSE e \in D : TRUE
         IN  Len(table[d]) + Listed(table, D \ {d})

\* The lists a generic next_states may still answer with.
FreshLists(table) ==
    {l \in SuccLists : Listed(table, DOMAIN table) + Len(l) <= MaxEdges}

\* ---------------------------------------------------------- Search driver
\* main with line 171 moved below line 176: the strategy is looked up
\* once the root is made.
Start_late_lookup ==
    /\ pc = "main"
    /\ prunes' = 0
    /\ explored' = <<>>
    /\ \E v \in (IF h_given THEN Answers(h, s0, HVals) ELSE {None}) :
          LET mem == Create(s0, None, 0, v, [heap |-> <<>>, count |-> 0])
          IN  /\ h' = IF h_given THEN (s0 :> v) @@ h ELSE h
              /\ nodes' = mem.heap
              /\ node_count' = mem.count
    /\ frontier' = <<1>>
    /\ IF strategy \notin Strategies
       THEN pc' = "raised" /\ exc' = "KeyError"
       ELSE pc' = "select" /\ exc' = exc
    /\ UNCHANGED <<heuristics, args, caller, next_states, goal_test, x,
                   new, n_prune, f_prune, e_prune, result>>

\* main without line 168: the counter goes on from where the call before
\* left it.
Start_no_reset ==
    /\ pc = "main"
    /\ prunes' = 0
    /\ explored' = <<>>
    /\ IF strategy \notin Strategies
       THEN /\ pc' = "raised"
            /\ exc' = "KeyError"
            /\ UNCHANGED <<h, node_count, nodes, frontier>>
       ELSE /\ \E v \in (IF h_given THEN Answers(h, s0, HVals) ELSE {None}) :
                  LET mem == Create(s0, None, 0, v,
                                    [heap |-> <<>>, count |-> node_count])
                  IN  /\ h' = IF h_given THEN (s0 :> v) @@ h ELSE h
                      /\ nodes' = mem.heap
                      /\ node_count' = mem.count
            /\ frontier' = <<1>>
            /\ pc' = "select"
            /\ exc' = exc
    /\ UNCHANGED <<heuristics, args, caller, next_states, goal_test, x,
                   new, n_prune, f_prune, e_prune, result>>

\* main, lines 167-177: reset the counters (168-170), look the strategy up
\* in sort_options (171: a KeyError for an identifier it lacks), make the
\* root (175-176; with a heuristic, h(s0) is called first).
Start ==
    /\ pc = "main"
    /\ prunes' = 0
    /\ explored' = <<>>
    /\ IF strategy \notin Strategies
       THEN /\ node_count' = 0
            /\ pc' = "raised"
            /\ exc' = "KeyError"
            /\ UNCHANGED <<h, nodes, frontier>>
       ELSE /\ \E v \in (IF h_given THEN Answers(h, s0, HVals) ELSE {None}) :
                  LET mem == Create(s0, None, 0, v, [heap |-> <<>>, count |-> 0])
                  IN  /\ h' = IF h_given THEN (s0 :> v) @@ h ELSE h
                      /\ nodes' = mem.heap
                      /\ node_count' = mem.count
            /\ frontier' = <<1>>
            /\ pc' = "select"
            /\ exc' = exc
    /\ UNCHANGED <<heuristics, args, caller, next_states, goal_test, x,
                   new, n_prune, f_prune, e_prune, result>>

\* main with line 181 skipped for a node whose state the goal test is
\* already known to accept: the node is tested without being moved to
\* explored.
Select_early_goal ==
    /\ pc = "select"
    /\ frontier # <<>>
    /\ x' = Head(frontier)
    /\ frontier' = Tail(frontier)
    /\ explored' = IF nodes[Head(frontier)].state \in DOMAIN goal_test
                      /\ goal_test[nodes[Head(frontier)].state]
                   THEN explored
                   ELSE Append(explored, Head(frontier))
    /\ IF verbose >= 2 /\ nodes[Head(frontier)].h = None
       THEN pc' = "raised" /\ exc' = "TypeError"
       ELSE pc' = "goal_test" /\ exc' = exc
    /\ UNCHANGED <<heuristics, args, caller, next_states, goal_test, h, node_count, nodes, prunes,
                   new, n_prune, f_prune, e_prune, result>>

\* main, lines 178-182: the loop test succeeds; pop the first frontier node
\* and append it to explored.  With verbose >= 2 line 182 prints
\* nodeinfo(x), which computes y.g+y.h: a TypeError when y.h is None.
Select ==
    /\ pc = "select"
    /\ frontier # <<>>
    /\ x' = Head(frontier)
    /\ frontier' = Tail(frontier)
    /\ explored' = Append(explored, Head(frontier))
    /\ IF verbose >= 2 /\ nodes[Head(frontier)].h = None
       THEN pc' = "raised" /\ exc' = "TypeError"
       ELSE pc' = "goal_test" /\ exc' = exc
    /\ UNCHANGED <<heuristics, args, caller, next_states, goal_test, h, node_count, nodes, prunes,
                   new, n_prune, f_prune, e_prune, result>>

\* main, lines 183-184: the goal test; on a goal, finish returns the states
\* of getpath(x).
GoalTest ==
    /\ pc = "goal_test"
    /\ \E b \in Answers(goal_test, nodes[x].state, BOOLEAN) :
          /\ goal_test' = (nodes[x].state :> b) @@ goal_test
          /\ IF b
             THEN /\ pc' = "Success"
                  /\ result' = [i \in 1 .. Len(getpath(x, nodes)) |->
                                   nodes[getpath(x, nodes)[i]].state]
             ELSE /\ pc' = "expand"
                  /\ result' = result
    /\ UNCHANGED <<heuristics, args, caller, next_states, h, exc, node_count, nodes, prunes,
                   frontier, explored, x, new, n_prune, f_prune, e_prune>>

\* main, lines 185-191, with expand (lines 110-143).  Line 116 calls
\* h(s) for every successor: with h = None that is a TypeError, raised
\* before the first Node is made.
Expand ==
    /\ pc = "expand"
    /\ \E succ \in Answers(next_states, nodes[x].state, FreshLists(next_states)) :
          /\ next_states' = (nodes[x].state :> succ) @@ next_states
          /\ IF succ # <<>> /\ ~h_given
             THEN /\ pc' = "raised"
                  /\ exc' = "TypeError"
                  /\ UNCHANGED <<h, node_count, nodes, prunes, frontier,
                                 explored, new, n_prune, f_prune, e_prune>>
             ELSE /\ node_count + Len(succ) <= MaxNodes
                  /\ \E hs \in [{succ[i][1] : i \in 1 .. Len(succ)} \ DOMAIN h
                                   -> HVals] :
                        LET hall == hs @@ h
                            mem  == MakeNew(succ, x, hall,
                                       [heap |-> nodes, count |-> node_count])
                            cand == [i \in 1 .. Len(succ) |-> Len(nodes) + i]
                            out  == expand(cand, frontier, explored, strategy,
                                           verbose, mem.heap)
                        IN  /\ h' = hall
                            /\ nodes' = mem.heap
                            /\ node_count' = mem.count
                            /\ new' = out.new
                            /\ n_prune' = out.n_prune
                            /\ frontier' = out.frontier
                            /\ f_prune' = out.f_prune
                            /\ explored' = out.explored
                            /\ e_prune' = out.e_prune
                            /\ prunes' = prunes + Discarded(out)
                  /\ pc' = "select"
                  /\ exc' = exc
    /\ UNCHANGED <<heuristics, args, caller, goal_test, x, result>>

\* main, lines 178 and 192-193: the frontier is empty; return False.
Fail ==
    /\ pc = "select"
    /\ frontier = <<>>
    /\ pc' = "Failure"
    /\ UNCHANGED <<heuristics, args, caller, next_states, goal_test, h, exc, node_count, nodes,
                   prunes, frontier, explored, x, new, n_prune, f_prune,
                   e_prune, result>>

Next == Start \/ Select \/ GoalTest \/ Expand \/ Fail

Spec == Init /\ [][Next]_vars

\* ------------------------------------------------------------ properties
\* A step of Expand in which expand returned (no exception).
Expanded == pc = "expand" /\ pc' = "select"
\* The references of the nodes such a step made at line 116.
Candidates == (Len(nodes) + 1) .. Len(nodes')
\* The key of node r under the strategy of the run, before and after a step.
KeyOf(r) == Key(strategy, nodes, r)
KeyAfter(r) == Key(strategy, nodes', r)
Survivors == Range(frontier) \cup Range(explored)
\* The run is over: main has returned a path, returned False, or raised.
Ended == pc \in {"Success", "Failure", "raised"}

\* C1 - No duplicate survivors: whenever main is at the top of its loop
\* (the root made, or expand just returned), under every strategy, no two
\* distinct nodes of frontier and explored together have the same state.
C1_NoDuplicateSurvivors ==
    pc = "select" =>
        \A a, b \in Survivors : a # b => nodes[a].state # nodes[b].state

\* An expansion has returned whose candidates were pruned or superseded
\* other nodes, and at least three nodes survive.
C1_Witness ==
    /\ pc = "select"
    /\ prunes > 0
    /\ Cardinality(Survivors) >= 3

\* C2 - Reopening: if expand is called with a node n in explored and makes
\* a candidate m of n's state with a key strictly lower than n's, then when
\* expand returns n is not in explored, and frontier holds a node of that
\* state whose key is no higher than m's (hence strictly lower than n's).
C2_Reopening ==
    [][Expanded =>
         \A n \in Range(explored) : \A m \in Candidates :
             (nodes'[m].state = nodes[n].state /\ KeyAfter(m) < KeyOf(n)) =>
                 /\ n \notin Range(explored')
                 /\ \E r \in Range(frontier') :
                       /\ nodes'[r].state = nodes[n].state
                       /\ KeyAfter(r) <= KeyAfter(m)]_vars

\* expand has just removed an explored node in favour of a new one.
C2_Witness ==
    /\ pc = "select"
    /\ e_prune # <<>>
    /\ \E n \in Range(e_prune) : \E r \in Range(frontier) :
          nodes[r].state = nodes[n].state /\ KeyOf(r) < KeyOf(n)

\* C3 - Path validity: the list a successful run returns starts with s0,
\* ends with a state goal_test accepts, and each element after the first is
\* one of the successor states next_states gives for the element before it.
C3_PathValidity ==
    pc = "Success" =>
        /\ result # <<>>
        /\ result[1] = s0
        /\ goal_test[result[Len(result)]]
        /\ \A i \in 1 .. (Len(result) - 1) :
              /\ result[i] \in DOMAIN next_states
              /\ \E j \in 1 .. Len(next_states[result[i]]) :
                    next_states[result[i]][j][1] = result[i + 1]

\* A run has returned a path of at least two transitions.
C3_Witness == pc = "Success" /\ Len(result) >= 3

\* C4 - Selection order: the node a Select step moves from frontier to
\* explored has the lowest key of the frontier, and the lowest id among the
\* frontier nodes of that key.
C4_SelectionOrder ==
    [][(pc = "select" /\ frontier # <<>>) =>
         /\ x' \in Range(frontier)
         /\ Range(frontier') = Range(frontier) \ {x'}
         /\ explored' = Append(explored, x')
         /\ \A r \in Range(frontier) :
               \/ KeyOf(x') < KeyOf(r)
               \/ KeyOf(x') = KeyOf(r) /\ nodes[x'].id <= nodes[r].id]_vars

\* A node has been selected from a frontier that held another node of the
\* same key.
C4_Witness ==
    /\ pc = "goal_test"
    /\ \E r \in Range(frontier) : KeyOf(r) = KeyOf(x)

\* C5 - Id monotonicity: within a run every node has an id strictly greater
\* than the id of every node made before it, so ids are unique.
C5_IdMonotonic ==
    \A i, j \in 1 .. Len(nodes) : i < j => nodes[i].id < nodes[j].id

\* A run has made four nodes.
C5_Witness == Len(nodes) >= 4

\* The four conditions of the claim for a candidate m of an expansion, on
\* the frontier and explored lists expand was called with.
DiscardCase(m) ==
    \/ \E n \in Range(explored) :
          nodes[n].state = nodes'[m].state /\ KeyOf(n) <= KeyAfter(m)
    \/ \E n \in Range(frontier) :
          nodes[n].state = nodes'[m].state /\ KeyOf(n) <= KeyAfter(m)
    \/ \E n \in Candidates \ {m} :
          nodes'[n].state = nodes'[m].state /\ KeyAfter(n) < KeyAfter(m)
    \/ \E n \in Candidates \ {m} :
          /\ nodes'[n].state = nodes'[m].state
          /\ KeyAfter(n) = KeyAfter(m)
          /\ nodes'[n].id < nodes'[m].id

\* C6 - New-candidate pruning: a candidate m of an expansion is returned in
\* n_prune, and is not in the returned frontier, if and only if (a) an
\* explored node has its state and a key <= its key, or (b) a frontier node
\* has, or (c) another candidate has its state and a strictly lower key, or
\* (d) another candidate has its state, its key and a lower id; otherwise it
\* is returned in new and is in the frontier.  At most one candidate per
\* state is retained.
C6_NewCandidatePruning ==
    [][Expanded =>
         /\ \A m \in Candidates :
               /\ m \in Range(n_prune') <=> DiscardCase(m)
               /\ m \in Range(frontier') <=> ~DiscardCase(m)
               /\ m \in Range(new') <=> ~DiscardCase(m)
         /\ \A m, n \in Candidates \cap Range(frontier') :
               m # n => nodes'[m].state # nodes'[n].state]_vars

\* An expansion has returned that discarded one candidate and retained
\* another.
C6_Witness ==
    /\ pc = "select"
    /\ n_prune # <<>>
    /\ new # <<>>

\* C7 - Supersession: a node of the frontier (of explored) expand was
\* called with is returned in f_prune (e_prune), and is missing from the
\* returned frontier (explored), if and only if a retained candidate has its
\* state and a strictly lower key; a retained candidate of an equal key
\* removes nothing.
C7_Supersession ==
    [][Expanded =>
         LET Beaten(m) == \E n \in Candidates \cap Range(new') :
                              /\ nodes'[n].state = nodes[m].state
                              /\ KeyAfter(n) < KeyOf(m)
         IN  /\ \A m \in Range(frontier) :
                   /\ m \in Range(f_prune') <=> Beaten(m)
                   /\ m \in Range(frontier') <=> ~Beaten(m)
             /\ \A m \in Range(explored) :
                   /\ m \in Range(e_prune') <=> Beaten(m)
                   /\ m \in Range(explored') <=> ~Beaten(m)]_vars

\* An expansion has returned that removed a node from the frontier in
\* favour of a new node of the same state.
C7_Witness ==
    /\ pc = "select"
    /\ f_prune # <<>>
    /\ \E m \in Range(f_prune) : \E n \in Range(new) :
          nodes[n].state = nodes[m].state /\ KeyOf(n) < KeyOf(m)

\* C8 - NoSolution: when next_states has no successors for any state and
\* goal_test is always false, the run ends by returning False (never by an
\* exception), with 1 node generated, 1 node explored and an empty
\* frontier.
C8_NoSolution ==
    (Ended /\ next_states = DeadEndNext /\ goal_test = DeadEndGoal) =>
        /\ pc = "Failure"
        /\ node_count = 1
        /\ Len(explored) = 1
        /\ frontier = <<>>

\* What holds of scenario C in the code: the same, for every run with a
\* strategy of sort_options that is given a heuristic or a verbose level
\* below 2.
DeadEndPrintable ==
    (Ended /\ next_states = DeadEndNext /\ goal_test = DeadEndGoal
           /\ strategy \in Strategies /\ (h_given \/ verbose < 2)) =>
        /\ pc = "Failure"
        /\ node_count = 1
        /\ Len(explored) = 1
        /\ frontier = <<>>

\* The result of scenario A: path [0,1,2,3] of cost 3, 4 nodes generated,
\* none pruned.
ChainResult ==
    /\ pc = "Success"
    /\ result = <<0, 1, 2, 3>>
    /\ nodes[x].g = 3
    /\ node_count = 4
    /\ prunes = 0

\* C9 - Scenario A: under uniform-cost and with no heuristic supplied, a
\* run on the linear chain ends with Success: path [0,1,2,3], cost 3, 4
\* nodes generated, 0 pruned.
C9_ScenarioA ==
    (Ended /\ next_states = ChainNext /\ goal_test = ChainGoal
           /\ strategy = "uc" /\ ~h_given) => ChainResult

\* What holds of scenario A in the code: the result, once a heuristic is
\* supplied.
ChainWithHeuristic ==
    (Ended /\ next_states = ChainNext /\ goal_test = ChainGoal
           /\ strategy = "uc" /\ h_given) => ChainResult

\* C10 - Scenario B: under uniform-cost the run on the graph A -> B (5),
\* A -> C (1), C -> B (1), B -> D (1) with goal D (A, B, C, D are 0, 1, 2,
\* 3) returns the path [A, C, B, D] of cost 3, and the expansion that makes
\* the node for B with g = 2 returns the frontier node for B with g = 5 in
\* f_prune.
C10_ScenarioB ==
    /\ [](  (Ended /\ next_states = SuperNext /\ goal_test = SuperGoal
                   /\ strategy = "uc") =>
             (pc = "Success" /\ result = <<0, 2, 1, 3>> /\ nodes[x].g = 3))
    /\ [][(Expanded /\ next_states = SuperNext /\ strategy = "uc"
             /\ \E m \in Candidates :
                   nodes'[m].state = 1 /\ nodes'[m].g = 2) =>
            \E r \in Range(frontier) :
                /\ nodes[r].state = 1
                /\ nodes[r].g = 5
                /\ r \in Range(f_prune')
                /\ r \notin Range(frontier')]_vars

\* What holds of scenario B in the code: the result, once a heuristic is
\* supplied.
SupersessionWithHeuristic ==
    (Ended /\ next_states = SuperNext /\ goal_test = SuperGoal
           /\ strategy = "uc" /\ h_given) =>
        /\ pc = "Success"
        /\ result = <<0, 2, 1, 3>>
        /\ nodes[x].g = 3
        /\ node_count = 5
        /\ prunes = 1

\* Scenario B has run to its end with a heuristic supplied.
SupersessionReached ==
    /\ pc = "Success"
    /\ next_states = SuperNext
    /\ strategy = "uc"
    /\ f_prune = <<>>
    /\ prunes = 1

\* C11 - MisconfiguredHeuristic: with strategy 'gbf' or 'a*' and no
\* heuristic supplied, main fails before any node (the root included) is
\* made, and so never returns a path or False.
C11_MisconfiguredHeuristic ==
    (strategy \in {"gbf", "a*"} /\ ~h_given) =>
        /\ nodes = <<>>
        /\ node_count = 0
        /\ pc \in {"main", "raised"}

\* What the code does with such a call: it makes the root with h = None
\* and, when the successor lists are empty or the root is a goal and
\* nothing is printed, returns False or a path.
HeuristicFreeReturn ==
    /\ strategy \in {"gbf", "a*"}
    /\ ~h_given
    /\ pc \in {"Success", "Failure"}
    /\ nodes[1].h = None

\* C12 - InvalidStrategy: a call of main with a strategy identifier outside
\* sort_options ends at once with an exception: no node is made, and none
\* of next_states, goal_test and h is called (their tables of answers stay
\* as they were).
C12_InvalidStrategy ==
    /\ [](strategy \notin Strategies =>
             /\ pc \in {"main", "raised"}
             /\ pc = "raised" => exc = "KeyError"
             /\ nodes = <<>>
             /\ node_count = 0
             /\ frontier = <<>>
             /\ explored = <<>>
             /\ result = <<>>)
    /\ [][strategy \notin Strategies =>
             UNCHANGED <<next_states, goal_test, h, nodes>>]_vars

\* A call with the identifier 'none' has ended.
C12_Witness ==
    /\ strategy = NoStrategy
    /\ pc = "raised"
    /\ exc = "KeyError"
    /\ h_given

\* ------------------------------------------------- callbacks that raise
\* An except clause around the callback's call that returns False.
Raise_downgraded(e) == pc' = "Failure" /\ exc' = e

\* main and expand have no try statement: an exception raised at a call
\* they make ends the run and is the caller's, as it is.
Raise(e) == pc' = "raised" /\ exc' = e

\* Line 175: h(s0) raises, before the root is made.
RootHeuristicRaises ==
    /\ pc = "main"
    /\ strategy \in Strategies
    /\ h_given
    /\ s0 \notin DOMAIN h
    /\ node_count' = 0
    /\ prunes' = 0
    /\ explored' = <<>>
    /\ Raise("CallbackError")
    /\ UNCHANGED <<heuristics, args, caller, next_states, goal_test, h, nodes, frontier,
                   x, new, n_prune, f_prune, e_prune, result>>

\* Line 183: goal_test(x.state) raises.
GoalTestRaises ==
    /\ pc = "goal_test"
    /\ nodes[x].state \notin DOMAIN goal_test
    /\ Raise("CallbackError")
    /\ UNCHANGED <<heuristics, args, caller, next_states, goal_test, h, node_count, nodes,
                   prunes, frontier, explored, x, new, n_prune, f_prune,
                   e_prune, result>>

\* Line 116: next_states(x.state) raises.
NextStatesRaises ==
    /\ pc = "expand"
    /\ nodes[x].state \notin DOMAIN next_states
    /\ Raise("CallbackError")
    /\ UNCHANGED <<heuristics, args, caller, next_states, goal_test, h, node_count, nodes,
                   prunes, frontier, explored, x, new, n_prune, f_prune,
                   e_prune, result>>

\* Line 116: next_states answers, and h(s) raises for the i-th successor,
\* a state h has not answered for.  The nodes of the successors before it
\* are made; expand gets no further.
HeuristicRaises ==
    /\ pc = "expand"
    /\ h_given
    /\ \E succ \in Answers(next_states, nodes[x].state, FreshLists(next_states)) :
       \E i \in 1 .. Len(succ) :
          LET before == SubSeq(succ, 1, i - 1)
              asked  == {before[j][1] : j \in 1 .. (i - 1)}
          IN  /\ succ[i][1] \notin DOMAIN h \cup asked
              /\ node_count + (i - 1) <= MaxNodes
              /\ next_states' = (nodes[x].state :> succ) @@ next_states
              /\ \E hs \in [asked \ DOMAIN h -> HVals] :
                    LET hall == hs @@ h
                        mem  == MakeNew(before, x, hall,
                                   [heap |-> nodes, count |-> node_count])
                    IN  /\ h' = hall
                        /\ nodes' = mem.heap
                        /\ node_count' = mem.count
    /\ Raise("CallbackError")
    /\ UNCHANGED <<heuristics, args, caller, goal_test, prunes, frontier, explored, x,
                   new, n_prune, f_prune, e_prune, result>>

NextFaulty ==
    \/ Next
    \/ RootHeuristicRaises
    \/ GoalTestRaises
    \/ NextStatesRaises
    \/ HeuristicRaises

\* Runs of main whose callbacks may raise.
SpecFaulty == Init /\ [][NextFaulty]_vars

\* C13 - CallbackFailure: when next_states, h or goal_test raises, the run
\* ends with that exception: it returns neither False nor a path, and
\* takes no further step (no selection, no expansion).
C13_CallbackFailure ==
    /\ [](exc = "CallbackError" => (pc = "raised" /\ result = <<>>))
    /\ [][exc = "CallbackError" => UNCHANGED vars]_vars

\* A callback has raised in the middle of a run: nodes have been made and
\* expanded before.
C13_Witness ==
    /\ exc = "CallbackError"
    /\ pc = "raised"
    /\ Len(explored) >= 2
    /\ frontier # <<>>

\* ------------------------------------------------- one call after another
\* What a call of main has left to be seen when it has ended: how it ended
\* and with what, the counters, the nodes with their ids, the frontier and
\* explored.
Outcome ==
    [pc         |-> pc,
     exc        |-> exc,
     result     |-> result,
     node_count |-> node_count,
     prunes     |-> prunes,
     nodes      |-> nodes,
     frontier   |-> frontier,
     explored   |-> explored]

\* The caller calls main again, with the same s0 and callbacks: with any
\* strategy, heuristic or none, and verbose level, and for its last call
\* with the arguments of its first again.  The locals of the call that
\* has ended are gone; the global node_count is what that call left.
Again ==
    /\ Ended
    /\ Len(history) + 1 < MaxCalls
    /\ history' = Append(history, [args |-> args, outcome |-> Outcome])
    /\ s0' = s0
    /\ IF Len(history) + 2 = MaxCalls
       THEN /\ strategy' = history'[1].args[2]
            /\ h_given' = history'[1].args[3]
            /\ verbose' = history'[1].args[4]
       ELSE /\ strategy' \in Strategies \cup {NoStrategy}
            /\ h_given' \in BOOLEAN
            /\ verbose' \in 0 .. MaxVerbose
    /\ pc' = "main"
    /\ exc' = ""
    /\ nodes' = <<>>
    /\ prunes' = 0
    /\ frontier' = <<>>
    /\ explored' = <<>>
    /\ x' = None
    /\ new' = <<>>
    /\ n_prune' = <<>>
    /\ f_prune' = <<>>
    /\ e_prune' = <<>>
    /\ result' = <<>>
    /\ UNCHANGED <<heuristics, next_states, goal_test, h, node_count, rt_pc,
                   solution>>

\* The callers of SpecAgain search the problems of the three scenarios.
InitAgain == Init /\ next_states # Unasked

NextAgain == Next \/ Again

SpecAgain == InitAgain /\ [][NextAgain]_vars

\* C14 - Run independence: every call of main makes its root with id 1,
\* the counter at 1, explored empty, the frontier holding the root alone
\* and no prunes counted, whatever calls went before; and a call that has
\* ended has the outcome (how it ended, the result, the nodes and their
\* ids, the counters, frontier and explored) of every earlier call with
\* the same arguments - among them the caller's first call, which nothing
\* went before.
C14_RunIndependence ==
    /\ [][(pc = "main" /\ pc' = "select") =>
            /\ node_count' = 1
            /\ prunes' = 0
            /\ explored' = <<>>
            /\ Len(nodes') = 1
            /\ nodes'[1].id = 1
            /\ frontier' = <<1>>]_vars
    /\ [](Ended =>
            \A i \in DOMAIN history :
                history[i].args = args => history[i].outcome = Outcome)

\* A third call has ended, after a second call with other arguments that
\* left the counter at another value than the first did.
C14_Witness ==
    /\ Len(history) = 2
    /\ Ended
    /\ node_count >= 3
    /\ history[2].args # args
    /\ history[2].outcome.node_count >= 2
    /\ history[2].outcome.node_count # history[1].outcome.node_count
    /\ history[1].args = args

\* What C15 speaks of in an outcome: the result of main (returned path,
\* False or exception) and the contents of frontier and explored.
Observed(o) ==
    [pc       |-> o.pc,
     exc      |-> o.exc,
     result   |-> o.result,
     frontier |-> [i \in DOMAIN o.frontier |-> o.nodes[o.frontier[i]].id],
     explored |-> [i \in DOMAIN o.explored |-> o.nodes[o.explored[i]].id]]

\* C15 - Observer non-interference: a call that has ended has the result,
\* the frontier and the explored list of every earlier call with the same
\* s0, callbacks, strategy and heuristic, whatever the verbose levels of
\* the two calls.
C15_ObserverNonInterference ==
    Ended =>
        \A i \in DOMAIN history :
            (/\ history[i].args[1] = s0
             /\ history[i].args[2] = strategy
             /\ history[i].args[3] = h_given) =>
                Observed(history[i].outcome) = Observed(Outcome)

\* What holds in the code: the same, for calls that are given a heuristic.
ObserverWithHeuristic ==
    (Ended /\ h_given) =>
        \A i \in DOMAIN history :
            (/\ history[i].args[1] = s0
             /\ history[i].args[2] = strategy
             /\ history[i].args[3] = h_given) =>
                Observed(history[i].outcome) = Observed(Outcome)

\* Two calls with a heuristic and verbose levels on either side of 2 have
\* ended, after at least one expansion that pruned.
ObserverWithHeuristicReached ==
    /\ Ended
    /\ h_given
    /\ prunes > 0
    /\ \E i \in DOMAIN history :
          /\ history[i].args[2] = strategy
          /\ history[i].args[3] = h_given
          /\ history[i].args[4] < 2
          /\ verbose >= 2

\* C16 - Prune counter: prunes is 0 when the root is made, every expansion
\* that returns adds to it the sizes of its n_prune, f_prune and e_prune,
\* and no other step changes it; the three groups of an expansion list,
\* each once, nodes that were candidates, in the frontier or explored and
\* are in neither list afterwards; and so at every step prunes is the
\* number of nodes made that are in neither frontier nor explored.
C16_PruneCounter ==
    /\ [](prunes = Len(nodes) - Cardinality(Survivors))
    /\ [][(pc = "main" /\ pc' = "select") => prunes' = 0]_vars
    /\ [][(pc # "main" /\ ~Expanded) => prunes' = prunes]_vars
    /\ [][Expanded =>
            LET gone == n_prune' \o f_prune' \o e_prune'
            IN  /\ prunes' = prunes + Len(gone)
                /\ Cardinality(Range(gone)) = Len(gone)
                /\ Range(gone) \subseteq
                       (Candidates \cup Range(frontier) \cup Range(explored))
                /\ Range(gone) \cap (Range(frontier') \cup Range(explored'))
                       = {}]_vars

\* Two expansions at least have discarded nodes, the last of them an
\* explored node.
C16_Witness ==
    /\ pc = "select"
    /\ e_prune # <<>>
    /\ prunes > Len(n_prune) + Len(f_prune) + Len(e_prune)

\* ------------------------------------------- problems known from the start
\* The next_states functions on States that list at most MaxEdges
\* transitions in all.
Graphs == {g \in [States -> SuccLists] : Listed(g, States) <= MaxEdges}

\* Calls of main with 'uc' or 'a*' and a heuristic, silent, on a problem
\* whose three callbacks are complete tables; the root is not a goal, and
\* the heuristic of a 'uc' call, which no key reads, is 0 everywhere.
InitOpt ==
    /\ s0 = 0
    /\ strategy \in {"uc", "a*"}
    /\ h_given = TRUE
    /\ verbose = 0
    /\ next_states \in Graphs
    /\ goal_test \in {t \in [States -> BOOLEAN] : ~t[0]}
    /\ h \in [States -> HVals]
    /\ strategy = "uc" => h = [s \in States |-> 0]
    /\ pc = "main"
    /\ exc = ""
    /\ node_count = 0
    /\ nodes = <<>>
    /\ prunes = 0
    /\ frontier = <<>>
    /\ explored = <<>>
    /\ x = None
    /\ new = <<>>
    /\ n_prune = <<>>
    /\ f_prune = <<>>
    /\ e_prune = <<>>
    /\ result = <<>>
    /\ history = <<>>
    /\ rt_pc = "direct"
    /\ solution = Unassigned
    /\ NoHeuristic

SpecOpt == InitOpt /\ [][Next]_vars

\* More than any path without a repeated state costs.
Unreachable == (NumStates * MaxCost) + 1

Least(S) == CHOOSE m \in S : \A n \in S : m <= n

\* The least cost of a path of at most k transitions from s to a state
\* goal_test accepts (Unreachable if there is none), next_states and
\* goal_test being complete tables.
RECURSIVE Dist(_, _)
Dist(s, k) ==
    IF goal_test[s] THEN 0
    ELSE IF k = 0 THEN Unreachable
    ELSE Least({Unreachable} \cup
               {next_states[s][i][2] + Dist(next_states[s][i][1], k - 1) :
                    i \in DOMAIN next_states[s]})

\* The least cost of any path from s: with costs >= 0 a cheapest path
\* need not repeat a state, so has fewer than NumStates transitions.
Remaining(s) == Dist(s, NumStates)

\* h never overestimates the remaining cost to a goal.
Admissible == \A s \in States : h[s] <= Remaining(s)

\* C17 - A* optimality: a call with 'a*' and an admissible heuristic
\* (costs are >= 0) that returns a path returns one of the least cost of
\* all paths from s0 to a goal: the g of the goal node is that cost.
C17_AStarOptimality ==
    (pc = "Success" /\ strategy = "a*" /\ Admissible) =>
        nodes[x].g = Remaining(s0)

\* An 'a*' call with an admissible heuristic that is not 0 everywhere has
\* returned a path, having also made a node of a goal state with a higher
\* g and discarded it.
C17_Witness ==
    /\ pc = "Success"
    /\ strategy = "a*"
    /\ Admissible
    /\ \E s \in States : h[s] > 0
    /\ \E n \in DOMAIN nodes :
          /\ goal_test[nodes[n].state]
          /\ nodes[n].g > nodes[x].g
          /\ n \notin Survivors

\* What the premise is for: with a heuristic that overestimates, 'a*'
\* returns a path that costs more than the cheapest.
OverestimateMisleads ==
    /\ pc = "Success"
    /\ strategy = "a*"
    /\ ~Admissible
    /\ nodes[x].g > Remaining(s0)

\* C20 - Uniform-cost optimality: a call with 'uc' (costs are >= 0) that
\* returns a path returns one of the least cost of all paths from s0 to a
\* state goal_test accepts: the g of the goal node is that cost.
C20_UniformCostOptimality ==
    (pc = "Success" /\ strategy = "uc") => nodes[x].g = Remaining(s0)

\* A 'uc' call has returned a path, having also made a node of a goal
\* state with a higher g and discarded it.
C20_Witness ==
    /\ pc = "Success"
    /\ strategy = "uc"
    /\ \E n \in DOMAIN nodes :
          /\ goal_test[nodes[n].state]
          /\ nodes[n].g > nodes[x].g
          /\ n \notin Survivors

\* -------------------------------------------------------- racetrack.main
\* racetrack.main, lines 49-53: with a strategy other than 'none', call
\* fsearch.main; with 'none', solution = None.
RaceCall ==
    /\ rt_pc = "call"
    /\ IF strategy # NoStrategy
       THEN /\ rt_pc' = "search"
            /\ pc' = "main"
            /\ solution' = solution
       ELSE /\ rt_pc' = "report"
            /\ pc' = pc
            /\ solution' = [kind |-> "None", path |-> <<>>]
    /\ UNCHANGED <<heuristics, args, next_states, goal_test, h, exc, node_count, nodes,
                   prunes, frontier, explored, x, new, n_prune, f_prune,
                   e_prune, result, history>>

\* racetrack.main, line 50: fsearch.main has returned, and solution is
\* what it returned; or it has raised, and so does racetrack.main.
RaceSearched ==
    /\ rt_pc = "search"
    /\ Ended
    /\ CASE pc = "Success" ->
              /\ solution' = [kind |-> "path", path |-> result]
              /\ rt_pc' = "report"
         [] pc = "Failure" ->
              /\ solution' = [kind |-> "False", path |-> <<>>]
              /\ rt_pc' = "report"
         [] pc = "raised" ->
              /\ solution' = solution
              /\ rt_pc' = "raised"
    /\ UNCHANGED <<heuristics, args, next_states, goal_test, h, pc, exc, node_count,
                   nodes, prunes, frontier, explored, x, new, n_prune,
                   f_prune, e_prune, result, history>>

\* racetrack.main, lines 54-61, with draw = 0: if verbose, print
\* len(solution) and solution - a TypeError when solution is None or
\* False, which have no len(); then return solution.
RaceReport ==
    /\ rt_pc = "report"
    /\ IF verbose # 0 /\ solution.kind \in {"None", "False"}
       THEN rt_pc' = "raised" /\ exc' = "TypeError"
       ELSE rt_pc' = "returned" /\ exc' = exc
    /\ UNCHANGED <<heuristics, args, next_states, goal_test, h, pc, node_count, nodes,
                   prunes, frontier, explored, x, new, n_prune, f_prune,
                   e_prune, result, history, solution>>

\* A call of racetrack.main with draw = 0: any strategy of its docstring,
\* any verbose level, a heuristic (line 36 hands fsearch.main a function
\* in every case), and a problem whose transitions all cost 1 (line 37):
\* the chain of scenario A or the dead end of scenario C.  fsearch.main
\* is not yet called.
InitRace ==
    /\ s0 = 0
    /\ strategy \in Strategies \cup {NoStrategy}
    /\ h_given = TRUE
    /\ verbose \in 0 .. MaxVerbose
    /\ \E p \in {[next_states |-> ChainNext,   goal_test |-> ChainGoal],
                 [next_states |-> DeadEndNext, goal_test |-> DeadEndGoal]} :
          /\ next_states = p.next_states
          /\ goal_test = p.goal_test
    /\ h = Unasked
    /\ pc = "idle"
    /\ exc = ""
    /\ node_count = 0
    /\ nodes = <<>>
    /\ prunes = 0
    /\ frontier = <<>>
    /\ explored = <<>>
    /\ x = None
    /\ new = <<>>
    /\ n_prune = <<>>
    /\ f_prune = <<>>
    /\ e_prune = <<>>
    /\ result = <<>>
    /\ history = <<>>
    /\ rt_pc = "call"
    /\ solution = Unassigned
    /\ NoHeuristic

NextRace == Next \/ RaceCall \/ RaceSearched \/ RaceReport

SpecRace == InitRace /\ [][NextRace]_vars

\* racetrack.main is over: it has returned or raised.
RaceEnded == rt_pc \in {"returned", "raised"}

\* C18 - racetrack.main outcome hand-off: at every verbose level, a call
\* with strategy 'none' never calls fsearch.main and ends by returning
\* None, and a call whose search returned False ends by returning False;
\* neither ends by an exception.
C18_OutcomeHandOff ==
    /\ strategy = NoStrategy => (pc = "idle" /\ nodes = <<>>)
    /\ (RaceEnded /\ strategy = NoStrategy) =>
           (rt_pc = "returned" /\ solution.kind = "None")
    /\ (RaceEnded /\ pc = "Failure") =>
           (rt_pc = "returned" /\ solution.kind = "False")

\* What holds in the code: the same of the calls with verbose = 0.
SilentHandOff ==
    verbose = 0 =>
        /\ strategy = NoStrategy => (pc = "idle" /\ nodes = <<>>)
        /\ (RaceEnded /\ strategy = NoStrategy) =>
               (rt_pc = "returned" /\ solution.kind = "None")
        /\ (RaceEnded /\ pc = "Failure") =>
               (rt_pc = "returned" /\ solution.kind = "False")

\* A silent call whose search found no solution has returned.
SilentHandOffReached ==
    /\ verbose = 0
    /\ rt_pc = "returned"
    /\ pc = "Failure"

\* ----------------------------------------- a heuristic that runs a search
\* Line 116 when every call h(s) runs a call of main of its own to its
\* end before it answers: that call sets the global node_count to 0 (line
\* 168) and leaves it at the number of nodes it made, made[s], and the
\* Node of s then takes its id from there.
RECURSIVE MakeNewNested(_, _, _, _, _)
MakeNewNested(succ, parent, hs, made, mem) ==
    IF succ = <<>> THEN mem
    ELSE MakeNewNested(Tail(succ), parent, hs, made,
             Create(Head(succ)[1], parent, Head(succ)[2], hs[Head(succ)[1]],
                    [heap  |-> mem.heap,
                     count |-> made[Head(succ)[1]]]))

\* main, lines 167-177, with such a heuristic: h(s0) is evaluated, and its
\* search run, after line 168 and before the root is made.
StartNested ==
    /\ pc = "main"
    /\ strategy \in Strategies
    /\ h_given
    /\ prunes' = 0
    /\ explored' = <<>>
    /\ \E v \in Answers(h, s0, HVals) : \E m \in 1 .. MaxNested :
          LET mem == Create(s0, None, 0, v, [heap |-> <<>>, count |-> m])
          IN  /\ h' = (s0 :> v) @@ h
              /\ nodes' = mem.heap
              /\ node_count' = mem.count
    /\ frontier' = <<1>>
    /\ pc' = "select"
    /\ UNCHANGED <<heuristics, args, caller, next_states, goal_test, exc, x,
                   new, n_prune, f_prune, e_prune, result>>

\* main, lines 185-191, with expand, with such a heuristic.
ExpandNested ==
    /\ pc = "expand"
    /\ h_given
    /\ \E succ \in Answers(next_states, nodes[x].state, FreshLists(next_states)) :
          LET targets == {succ[i][1] : i \in 1 .. Len(succ)}
          IN  /\ next_states' = (nodes[x].state :> succ) @@ next_states
              /\ Len(nodes) + Len(succ) <= MaxNodes
              /\ \E hs \in [targets \ DOMAIN h -> HVals] :
                 \E made \in [targets -> 1 .. MaxNested] :
                    LET hall == hs @@ h
                        mem  == MakeNewNested(succ, x, hall, made,
                                   [heap |-> nodes, count |-> node_count])
                        cand == [i \in 1 .. Len(succ) |-> Len(nodes) + i]
                        out  == expand(cand, frontier, explored, strategy,
                                       verbose, mem.heap)
                    IN  /\ h' = hall
                        /\ nodes' = mem.heap
                        /\ node_count' = mem.count
                        /\ new' = out.new
                        /\ n_prune' = out.n_prune
                        /\ frontier' = out.frontier
                        /\ f_prune' = out.f_prune
                        /\ explored' = out.explored
                        /\ e_prune' = out.e_prune
                        /\ prunes' = prunes + Discarded(out)
    /\ pc' = "select"
    /\ UNCHANGED <<heuristics, args, caller, goal_test, exc, x, result>>

\* Silent calls of main with a heuristic on the generic problem.
InitNested ==
    /\ Init
    /\ strategy \in Strategies
    /\ h_given
    /\ verbose = 0
    /\ next_states = Unasked

NextNested == StartNested \/ Select \/ GoalTest \/ ExpandNested \/ Fail

SpecNested == InitNested /\ [][NextNested]_vars

\* C19 - Nested search inside a callback: when the heuristic runs a whole
\* call of main of its own each time the outer run calls it, the ids of
\* the outer run's nodes are still distinct and increasing in the order
\* the nodes were made, and at the top of the outer loop no two nodes of
\* frontier and explored together have the same state.
C19_NestedSearch ==
    /\ \A i, j \in DOMAIN nodes : i < j => nodes[i].id < nodes[j].id
    /\ pc = "select" =>
           \A a, b \in Survivors : a # b => nodes[a].state # nodes[b].state

\* What the code does: two nodes of one state, with one key and one id,
\* both stay in the frontier.
NestedDuplicateSurvivors ==
    /\ pc = "select"
    /\ \E a, b \in Range(frontier) :
          /\ a # b
          /\ nodes[a].state = nodes[b].state
          /\ nodes[a].id = nodes[b].id

\* ------------------------------------------------------ runs to their end
\* The states next_states lists for s, next_states being a complete table.
Succs(s) == {next_states[s][i][1] : i \in DOMAIN next_states[s]}

\* The states reached from the states S by at most k transitions.
RECURSIVE Reach(_, _)
Reach(S, k) ==
    IF k = 0 THEN S
    ELSE Reach(S \cup UNION {Succs(s) : s \in S}, k - 1)

\* Silent calls of main with a heuristic, under every strategy, on a
\* problem whose callbacks are complete tables: any graph of Graphs
\* (cycles and self-loops among them) that lists transitions only for
\* states within reach of s0 (main never asks for the others), no goal or
\* the last state as goal, and a heuristic that the strategies whose key
\* reads none get as 0.
InitLive ==
    /\ s0 = 0
    /\ strategy \in Strategies
    /\ h_given = TRUE
    /\ verbose = 0
    /\ next_states \in Graphs
    /\ \A s \in States :
          next_states[s] # <<>> => s \in Reach({s0}, NumStates)
    /\ goal_test \in {[s \in States |-> FALSE],
                      [s \in States |-> s = NumStates - 1]}
    /\ h \in [States -> HVals]
    /\ strategy \in {"bf", "df", "uc"} => h = [s \in States |-> 0]
    /\ pc = "main"
    /\ exc = ""
    /\ node_count = 0
    /\ nodes = <<>>
    /\ prunes = 0
    /\ frontier = <<>>
    /\ explored = <<>>
    /\ x = None
    /\ new = <<>>
    /\ n_prune = <<>>
    /\ f_prune = <<>>
    /\ e_prune = <<>>
    /\ result = <<>>
    /\ history = <<>>
    /\ rt_pc = "direct"
    /\ solution = Unassigned
    /\ NoHeuristic

SpecLive == InitLive /\ [][Next]_vars

\* The interpreter goes on executing main as long as main has a next
\* statement.
SpecLiveFair == SpecLive /\ WF_vars(Next)

\* A state that can be reached from s0 can be reached again from itself.
Cyclic == \E s \in Reach({s0}, NumStates) : s \in Reach(Succs(s), NumStates)

\* main has returned a path or False.
Returned == pc \in {"Success", "Failure"}

\* A call of main that has not returned has a next step to take.  Every
\* step of a run but an expansion that makes nodes shortens the frontier
\* or moves on within one pass of the loop, and Expand makes no node
\* beyond the MaxNodes-th: so a run that always has a next step until it
\* returns does return, after fewer than MaxNodes expansions that made
\* nodes, and a run that is left without one has made MaxNodes nodes
\* and is still expanding.
GoesOn == Returned \/ ENABLED Next

\* C21 - Termination for bf/uc/gbf/a*: on every problem of finitely many
\* states with costs >= 0 and a heuristic that is a function of the state,
\* cycles or not, a run under 'bf', 'uc', 'gbf' or 'a*' comes to return a
\* path or False (and does so before it has made MaxNodes nodes).
C21_Termination == (strategy # "df") => GoesOn

\* The same as a property of the runs of SpecLiveFair.
EventuallyReturns == (strategy # "df") => <>Returned

\* Such a run has returned on a graph with a cycle, having made and
\* discarded a node of the state of one of that node's own ancestors.
C21_Witness ==
    /\ Returned
    /\ strategy # "df"
    /\ Cyclic
    /\ \E n \in DOMAIN nodes \ Survivors :
       \E a \in Range(getpath(n, nodes)) \ {n} :
           nodes[a].state = nodes[n].state

\* C22 - Termination for depth-first: on every problem of finitely many
\* states whose graph has a cycle, a run under 'df' comes to return a
\* path or False.
C22_DepthFirstTermination == (strategy = "df" /\ Cyclic) => GoesOn

\* What holds in the code: a 'df' run returns when the graph has no cycle.
DepthFirstAcyclic == (strategy = "df" /\ ~Cyclic) => GoesOn

\* Why a 'df' run goes round a cycle for ever: under the key -id a new
\* node has a lower key than every node made before it, so expand keeps
\* every candidate but the earlier of two of one state, and discards every
\* frontier and explored node of a candidate's state - the ancestor whose
\* expansion began the cycle among them.
DepthFirstReopens ==
    [][(Expanded /\ strategy = "df") =>
          /\ \A m \in Candidates :
                m \in Range(n_prune') =>
                    \E n \in Candidates :
                        n > m /\ nodes'[n].state = nodes'[m].state
          /\ \A r \in Survivors : \A m \in Candidates :
                nodes'[m].state = nodes[r].state =>
                    r \notin Range(frontier') \cup Range(explored')]_vars

\* A 'df' run is expanding a node of the state of one of its ancestors.
DepthFirstRoundAgain ==
    /\ strategy = "df"
    /\ pc = "expand"
    /\ \E a \in Range(getpath(x, nodes)) \ {x} :
          nodes[a].state = nodes[x].state

\* The number of places of list that hold r.
Occurrences(list, r) == Cardinality({i \in DOMAIN list : list[i] = r})

\* C23 - Node conservation: at the top of the loop and when main has
\* returned, node_count is the number of nodes made in the run and equals
\* len(frontier) + len(explored) + prunes; every node made is at one place
\* of frontier, or at one place of explored, or at none of either (it was
\* discarded), and the nodes at none are prunes in number.
C23_NodeConservation ==
    pc \in {"select", "Success", "Failure"} =>
        /\ node_count = Len(nodes)
        /\ node_count = Len(frontier) + Len(explored) + prunes
        /\ Survivors \subseteq DOMAIN nodes
        /\ \A r \in DOMAIN nodes :
              Occurrences(frontier, r) + Occurrences(explored, r) <= 1
        /\ Cardinality(DOMAIN nodes \ Survivors) = prunes

\* main has returned a path with nodes in the frontier, in explored and
\* discarded.
C23_Witness ==
    /\ pc = "Success"
    /\ prunes >= 1
    /\ frontier # <<>>
    /\ Len(explored) >= 2

\* C24 - One-way node lifecycle: no node is at two places of frontier and
\* explored together; a node comes into the frontier only in the step
\* that makes it (the root in main, the others in expand); a node comes
\* into explored only by being selected, from the head of the frontier;
\* so a node once selected or discarded is never in the frontier again,
\* and for every explored node an expansion removes, the frontier it
\* returns holds a node of that state made in that expansion, with an id
\* above every id given before.
C24_OneWayLifecycle ==
    /\ [](\A r \in DOMAIN nodes :
              Occurrences(frontier, r) + Occurrences(explored, r) <= 1)
    /\ [][\A r \in Range(frontier') \ Range(frontier) :
              /\ r \notin DOMAIN nodes
              /\ r \in DOMAIN nodes'
              /\ pc = "main" \/ Expanded]_vars
    /\ [][\A r \in Range(explored') \ Range(explored) :
              /\ pc = "select"
              /\ r \in Range(frontier)
              /\ r = Head(frontier)
              /\ r = x'
              /\ r \notin Range(frontier')]_vars
    /\ [][Expanded =>
              \A n \in Range(e_prune') :
                  \E r \in Range(frontier') \cap Candidates :
                      /\ nodes'[r].state = nodes[n].state
                      /\ \A o \in DOMAIN nodes : nodes[o].id < nodes'[r].id]_vars

\* A node that was selected and later removed from explored is in neither
\* list, and a later node of its state has been selected in its turn.
C24_Witness ==
    /\ pc = "goal_test"
    /\ \E n \in DOMAIN nodes \ Survivors :
          /\ n < x
          /\ nodes[n].state = nodes[x].state
          /\ nodes[n].children # <<>>

\* The fields of a node that Node.__init__ sets for good (children is the
\* one it leaves to grow).
Fixed(n) == [state  |-> n.state,
             parent |-> n.parent,
             depth  |-> n.depth,
             g      |-> n.g,
             h      |-> n.h,
             id     |-> n.id]

\* list1 holds r before s.
Before(list, r, s) ==
    \E i, j \in DOMAIN list : i < j /\ list[i] = r /\ list[j] = s

\* C25 - Expansion frame: the frontier expand returns holds the old
\* frontier's nodes but those of f_prune, and the retained candidates
\* (those of new), each once, in ascending order of key; the explored
\* list it returns is the old one without the nodes of e_prune, in the
\* old order; and a frontier or explored node whose state is the state of
\* no retained candidate stays in its list, with its fields as they were
\* and, in the frontier, in its old order relative to the others that
\* stay.
C25_ExpansionFrame ==
    [][Expanded =>
         LET kept == Candidates \ Range(n_prune')
             Untouched(r) == \A m \in kept : nodes'[m].state # nodes[r].state
         IN  /\ Range(new') = kept
             /\ Range(frontier') =
                    (Range(frontier) \ Range(f_prune')) \cup kept
             /\ Len(frontier') = Cardinality(Range(frontier'))
             /\ \A i, j \in DOMAIN frontier' :
                    i < j => KeyAfter(frontier'[i]) <= KeyAfter(frontier'[j])
             /\ explored' =
                    SelectSeq(explored, LAMBDA m : m \notin Range(e_prune'))
             /\ \A r \in Range(frontier) :
                    Untouched(r) =>
                        /\ r \in Range(frontier')
                        /\ Fixed(nodes'[r]) = Fixed(nodes[r])
             /\ \A r \in Range(explored) :
                    Untouched(r) =>
                        /\ r \in Range(explored')
                        /\ Fixed(nodes'[r]) = Fixed(nodes[r])
             /\ \A r, s \in Range(frontier) \cap Range(frontier') :
                    Before(frontier, r, s) => Before(frontier', r, s)]_vars

\* An expansion has returned that merged a candidate into the frontier
\* before a node that was there already.
C25_Witness ==
    /\ pc = "select"
    /\ Len(explored) >= 2
    /\ \E i, j \in DOMAIN frontier :
          /\ i < j
          /\ frontier[i] \in Range(new)
          /\ frontier[j] \notin Range(new)

\* ------------------------------------------- cost and depth consistency
\* The position of node n among the children of its parent: the position
\* of its successor pair in the list next_states gave for the parent.
ChildIndex(n) ==
    CHOOSE k \in DOMAIN nodes[nodes[n].parent].children :
        nodes[nodes[n].parent].children[k] = n

\* The successor pair (s, c) node n was created from.
Pair(n) == next_states[nodes[nodes[n].parent].state][ChildIndex(n)]

\* The sum of the transition costs along the parent chain of node n.
RECURSIVE ChainCost(_)
ChainCost(n) ==
    IF nodes[n].parent = None THEN 0
    ELSE ChainCost(nodes[n].parent) + Pair(n)[2]

\* C26: the root has no parent, depth 0 and g 0; every other node n,
\* created from parent p by the successor pair (s, c), has state s, parent
\* p, depth p.depth + 1 and g = p.g + c; so for every node g is the sum of
\* the transition costs along its parent chain and depth is the length of
\* that chain.
C26_CostDepthConsistency ==
    \A n \in DOMAIN nodes :
        LET p == nodes[n].parent
        IN  /\ (n = 1) = (p = None)
            /\ p = None =>
                  /\ nodes[n].state = s0
                  /\ nodes[n].depth = 0
                  /\ nodes[n].g = 0
            /\ p # None =>
                  /\ p \in DOMAIN nodes
                  /\ p < n
                  /\ n \in Range(nodes[p].children)
                  /\ Cardinality({q \in DOMAIN nodes :
                                     n \in Range(nodes[q].children)}) = 1
                  /\ nodes[p].state \in DOMAIN next_states
                  /\ Len(nodes[p].children) = Len(next_states[nodes[p].state])
                  /\ nodes[n].state = Pair(n)[1]
                  /\ nodes[n].depth = nodes[p].depth + 1
                  /\ nodes[n].g = nodes[p].g + Pair(n)[2]
            /\ nodes[n].g = ChainCost(n)
            /\ nodes[n].depth = Len(getpath(n, nodes)) - 1

\* A node three transitions below the root exists whose chain has both a
\* transition of cost 0 and one of a positive cost.
C26_Witness ==
    \E n \in DOMAIN nodes :
        /\ nodes[n].depth >= 3
        /\ nodes[n].g >= 1
        /\ nodes[n].g < nodes[n].depth

\* ------------------------------------------------------ node immutability
\* C27: after a node is created no step of the search changes its state,
\* parent, depth, g, h or id: every node on the heap before a step is on
\* it after the step with these fields as they were, also when the step
\* removes it from frontier or explored as superseded.
C27_NodeImmutability ==
    [][\A r \in DOMAIN nodes :
          /\ r \in DOMAIN nodes'
          /\ Fixed(nodes'[r]) = Fixed(nodes[r])]_vars

\* An expansion has returned that removed a node from the frontier or from
\* explored as superseded by a cheaper candidate; the node is still on the
\* heap.
C27_Witness ==
    /\ pc = "select"
    /\ \E m \in Range(f_prune) \cup Range(e_prune) :
          /\ m \in DOMAIN nodes
          /\ m \notin Survivors
          /\ \E n \in Range(new) :
                /\ nodes[n].state = nodes[m].state
                /\ nodes[n].g < nodes[m].g

\* ------------------------------------------------------ goal check timing
\* The node in hand between its selection and the end of its expansion (or
\* the return of the path to it): it is in explored, not on the frontier,
\* and has not been expanded.
InHand ==
    /\ x \in Range(explored)
    /\ x \notin Range(frontier)
    /\ nodes[x].children = <<>>

\* C28: goal_test is evaluated only on the state of the node just selected,
\* after the node has been moved from the frontier to explored and before it
\* is expanded; a node is expanded only after the test rejected its state,
\* and an expansion reports nothing, whatever its candidates are; so at
\* Success the goal node is in explored and was never expanded.
C28_GoalCheckTiming ==
    /\ [](pc \in {"goal_test", "expand", "Success"} => InHand)
    /\ [](pc = "expand" => /\ nodes[x].state \in DOMAIN goal_test
                           /\ ~goal_test[nodes[x].state])
    /\ [](pc = "Success" => /\ nodes[x].state \in DOMAIN goal_test
                            /\ goal_test[nodes[x].state]
                            /\ result # <<>>
                            /\ result[Len(result)] = nodes[x].state)
    /\ [][goal_test' # goal_test =>
             /\ pc = "goal_test"
             /\ x = explored[Len(explored)]
             /\ x' = x
             /\ DOMAIN goal_test' = DOMAIN goal_test \cup {nodes[x].state}
             /\ \A s \in DOMAIN goal_test : goal_test'[s] = goal_test[s]]_vars
    /\ [][pc' = "Success" =>
             /\ pc = "goal_test"
             /\ x' = x
             /\ nodes' = nodes
             /\ explored' = explored]_vars
    /\ [][pc = "expand" =>
             /\ pc' \in {"select", "raised"}
             /\ result' = result
             /\ goal_test' = goal_test]_vars

\* The search has returned a path to a node that is not the latest made:
\* after the goal candidate was generated, a later expansion of another
\* node generated further candidates before the goal node was selected.
C28_Witness ==
    /\ pc = "Success"
    /\ \E n \in DOMAIN nodes :
          /\ n > x
          /\ nodes[n].parent \notin {None, nodes[x].parent}

\* ==================================================== heuristic modules
\* The variables of fsearch.main and of its caller, which a call of a
\* heuristic leaves alone.
search == <<args, caller, next_states, goal_test, h, pc, exc, node_count,
            nodes, prunes, frontier, explored, x, new, n_prune, f_prune,
            e_prune, result>>

\* The caller makes a new wall list (a problem of its own walls).
NewWalls ==
    /\ Len(lists) < MaxLists
    /\ \E walls \in WallSets : lists' = Append(lists, walls)
    /\ UNCHANGED <<search, racing, variant, g_fline, g_walls, grid, find, run,
                   first, grid_of, last>>

\* The caller appends a wall to one of its lists: walls.append(wall).
AppendWall ==
    /\ \E r \in DOMAIN lists : \E w \in Columns \ lists[r] :
          lists' = [lists EXCEPT ![r] = @ \cup {w}]
    /\ UNCHANGED <<search, racing, variant, g_fline, g_walls, grid, find, run,
                   first, grid_of, last>>

\* The caller begins another search, the one before having called the
\* heuristic.
NewSearch ==
    /\ run < MaxRuns
    /\ ~first
    /\ run' = run + 1
    /\ first' = TRUE
    /\ UNCHANGED <<search, racing, variant, g_fline, g_walls, grid, find, lists,
                   grid_of, last>>

\* A search calls the heuristic (fsearch.py, lines 116 and 176) for a
\* state, with a finish line and one of the caller's wall lists, the
\* finish line off the walls.  h_walldist (sample_heuristics.py, lines
\* 71-92) and the h_proj1 of proj1.py (lines 37-59) recompute the grid if
\* the cache check says so, and read it; the h_proj1 of h_proj1.py (lines
\* 54-112) returns infinity at once when find is set, and sets find on a
\* goal state.
HeuristicCall ==
    /\ \E state \in CarStates, fline \in FinishLines, r \in DOMAIN lists :
          /\ fline \notin lists[r]
          /\ \E stale \in {Stale(fline, r)},
                expected \in {FirstValue(variant, state, fline, lists[r])} :
                LET config == [fline |-> fline, walls |-> lists[r]]
                    early  == variant = "h_proj1" /\ find
                    after  == IF early \/ ~stale THEN grid_of ELSE config
                    call   == [run |-> run, first |-> first,
                               expected |-> expected,
                               differs |-> grid = <<>> \/ grid_of # config,
                               keyed |-> after = config]
                IN  IF early
                    THEN /\ last' = call @@ [value    |-> Num(infinity, 0),
                                             computed |-> FALSE,
                                             read     |-> FALSE]
                         /\ UNCHANGED <<g_fline, g_walls, grid, find,
                                        grid_of>>
                    ELSE \E g \in {IF stale
                                   THEN GridFor(variant, fline, lists[r])
                                   ELSE grid} :
                            /\ grid' = g
                            /\ g_fline' = IF stale THEN fline ELSE g_fline
                            /\ g_walls' = IF stale THEN r ELSE g_walls
                            /\ grid_of' = after
                            /\ find' = (find \/ (/\ variant = "h_proj1"
                                                 /\ state = <<fline, 0>>))
                            /\ last' = call @@
                                  [value    |-> Value(variant, state, fline,
                                                      lists[r], g),
                                   computed |-> stale,
                                   read     |-> TRUE]
    /\ first' = FALSE
    /\ UNCHANGED <<search, racing, variant, lists, run>>

\* A process that has imported one of the three heuristic modules and is
\* about to make its first search; fsearch.main itself is left out.
InitHeur ==
    /\ s0 = 0
    /\ strategy = "bf"
    /\ h_given = TRUE
    /\ verbose = 0
    /\ next_states = Unasked
    /\ goal_test = Unasked
    /\ h = Unasked
    /\ pc = "idle"
    /\ exc = ""
    /\ node_count = 0
    /\ nodes = <<>>
    /\ prunes = 0
    /\ frontier = <<>>
    /\ explored = <<>>
    /\ x = None
    /\ new = <<>>
    /\ n_prune = <<>>
    /\ f_prune = <<>>
    /\ e_prune = <<>>
    /\ result = <<>>
    /\ history = <<>>
    /\ rt_pc = "direct"
    /\ solution = Unassigned
    /\ variant \in Variants
    /\ lists = <<>>
    /\ run = 1
    /\ first = TRUE
    /\ Imported
    /\ NoRacing

NextHeur == NewWalls \/ AppendWall \/ NewSearch \/ HeuristicCall

SpecHeur == InitHeur /\ [][NextHeur]_vars

\* -------------------------------------- heuristic independence across runs
\* The grid a module holds is the one it computes for the finish line and
\* the walls it was last computed for.
GridOfConfig ==
    grid # <<>> => grid = GridFor(variant, grid_of.fline, grid_of.walls)

\* A call that reads a grid computed for its own finish line and walls
\* returns what a first call after import returns.
KeyedReadIndependent ==
    (last.read /\ last.keyed) => last.value = last.expected

\* C29: the value the h_proj1 of h_proj1.py returns for a state, a finish
\* line and walls does not depend on the calls an earlier search made: the
\* first call of a later search returns what it would return as the first
\* call of a first search.
C29_HeuristicIndependence ==
    (variant = "h_proj1" /\ last.run >= 2 /\ last.first)
        => last.value = last.expected

\* ------------------------------------------ grid cache keyed by configuration
\* While the wall list the module remembers holds what it held when the
\* grid was computed, a call that reads the grid reads one computed for its
\* own finish line and walls.
KeyedUnlessMutated ==
    (last.read /\ g_walls # Unset /\ lists[g_walls] = grid_of.walls)
        => last.keyed

\* A call whose finish line or walls differ from those the grid was
\* computed for, or that finds the grid empty, computes the grid.
ComputedWhenDiffers == last.run # 0 => (last.differs => last.computed)

\* The grid a call reads was computed for its finish line and walls.
ReadKeyed == last.read => last.keyed

\* C30: in each of the three modules a call computes the grid whenever its
\* finish line or its walls differ from those the grid was computed for, or
\* the grid is empty; so the grid a call reads was computed for the finish
\* line and the walls of that call.
C30_GridKeyedByConfiguration ==
    ComputedWhenDiffers /\ ReadKeyed

\* ------------------------------------------------ path reconstruction shape
\* The ancestor of node n that is k parent links above it.
RECURSIVE Up(_, _)
Up(n, k) == IF k = 0 THEN n ELSE Up(nodes[n].parent, k - 1)

\* C32: for every node y, getpath(y) has y.depth + 1 nodes, begins with
\* the root, ends with y, and each of its elements is the parent of the
\* next; the list of states a successful run returns is the states of the
\* nodes from the root down to the goal node, in that order.
C32_PathShape ==
    /\ \A y \in DOMAIN nodes :
          LET path == getpath(y, nodes)
          IN  /\ Len(path) = nodes[y].depth + 1
              /\ nodes[path[1]].parent = None
              /\ path[Len(path)] = y
              /\ \A i \in 1 .. (Len(path) - 1) :
                    nodes[path[i + 1]].parent = path[i]
    /\ pc = "Success" =>
          /\ Len(result) = nodes[x].depth + 1
          /\ \A i \in DOMAIN result :
                result[i] = nodes[Up(x, nodes[x].depth + 1 - i)].state

\* A run has returned a path of three or more states while a node off
\* that path exists.
C32_Witness ==
    /\ pc = "Success"
    /\ Len(result) >= 3
    /\ \E n \in DOMAIN nodes : n \notin Range(getpath(x, nodes))

\* ================================================================ nmoves
\* What a Python call comes to is written as a sequence: <<n>> when it
\* returns n, <<>> when it raises.
Plus(a, b) == IF a = <<>> \/ b = <<>> THEN <<>> ELSE <<a[1] + b[1]>>
LeastOf(S) == IF <<>> \in S THEN <<>> ELSE <<Smallest({r[1] : r \in S})>>
MostOf(S) == IF <<>> \in S THEN <<>> ELSE <<Largest({r[1] : r \in S})>>

\* cdist with line 36 as v*(v+1)/2 - t*(t+1)/2: the stopping distances
\* taken one speed too high.
cdist_high(v, t) ==
    IF v < 0 \/ t < 0 THEN <<>>
    ELSE IF t = v THEN <<t>>
    ELSE IF t < v THEN <<(v * (v + 1)) \div 2 - (t * (t + 1)) \div 2>>
    ELSE <<(t * (t + 1)) \div 2 - (v * (v + 1)) \div 2>>

\* cdist(v, t) (nmoves.py, lines 25-39): the distance travelled from speed
\* v until the last move is made at speed t; the products of two
\* consecutive integers are even, so the divisions are exact.
cdist(v, t) ==
    IF v < 0 \/ t < 0 THEN <<>>
    ELSE IF t = v THEN <<t>>
    ELSE IF t < v THEN <<(v * (v - 1)) \div 2 - (t * (t - 1)) \div 2>>
    ELSE <<(t * (t + 1)) \div 2 - (v * (v + 1)) \div 2>>

\* The while loop of nmoves (lines 66-69) from speed t on, with the tmax
\* and dmax assigned so far (<<>> while unassigned): the values it ends
\* with, or <<>> if cdist raises.
RECURSIVE Climb(_, _, _, _, _)
Climb(v, d, t, tmax, dmax) ==
    LET reach == Plus(cdist(v, t), cdist(t, 0))
    IN  IF reach = <<>> THEN <<>>
        ELSE IF reach[1] <= d THEN Climb(v, d, t + 1, <<t>>, reach)
        ELSE <<[tmax |-> tmax, dmax |-> dmax]>>

\* nmoves(v, d) (lines 42-77).  Line 73 raises when tmax or dmax is
\* unassigned or tmax is 0; math.ceil of the quotient of two positive
\* integers is the integer quotient rounded up.
RECURSIVE nmoves(_, _)
nmoves(v, d) ==
    IF d < 0 THEN nmoves(-v, -d)
    ELSE IF v < 0
    THEN LET stop == cdist(-v, 0)
         IN  IF stop = <<>> THEN <<>>
             ELSE Plus(<<-v>>, nmoves(0, d + stop[1]))
    ELSE LET stop == cdist(v, 0)
         IN  IF stop = <<>> THEN <<>>
             ELSE IF stop[1] > d THEN Plus(<<v>>, nmoves(0, stop[1] - d))
             ELSE IF stop[1] = d THEN <<v>>
             ELSE LET top == Climb(v, d, IF v - 1 > 0 THEN v - 1 ELSE 0,
                                   <<>>, <<>>)
                  IN  IF top = <<>> \/ top[1].tmax = <<>> THEN <<>>
                      ELSE LET tmax == top[1].tmax[1]
                               dmax == top[1].dmax[1]
                           IN  IF dmax < d
                               THEN IF tmax = 0 THEN <<>>
                                    ELSE <<(tmax - v) + tmax
                                           + ((d - dmax) + tmax - 1) \div tmax>>
                               ELSE <<(tmax - v) + tmax>>

\* h_nmoves(state, fline) (lines 81-94).
h_nmoves(state, fline) ==
    LET cx == state[1][1]
        cy == state[1][2]
        u  == state[2][1]
        v  == state[2][2]
        x1 == fline[1][1]
        y1 == fline[1][2]
        x2 == fline[2][1]
        y2 == fline[2][2]
        lo(a, b) == IF a < b THEN a ELSE b
        hi(a, b) == IF a < b THEN b ELSE a
    IN  IF x1 = x2
        THEN MostOf({nmoves(u, x1 - cx),
                     LeastOf({nmoves(v, y3 - cy) :
                                 y3 \in lo(y1, y2) .. hi(y1, y2)})})
        ELSE MostOf({LeastOf({nmoves(u, x3 - cx) :
                                 x3 \in lo(x1, x2) .. hi(x1, x2)}),
                     nmoves(v, y1 - cy)})

\* The racer is to come to rest at a distance within goal_dist[1] ..
\* goal_dist[2] along its line.  To h_nmoves that is a car at (0,0) moving
\* along one axis, at rest in the other, and a finish line that lies on
\* that axis or, when the racer is to reach one distance, crosses it.
Problems2D ==
    LET a == goal_dist[1]
        b == goal_dist[2]
        alongX == <<<<0, 0>>, <<speed0, 0>>>>
        alongY == <<<<0, 0>>, <<0, speed0>>>>
    IN  {[state |-> alongX, fline |-> <<<<a, 0>>, <<b, 0>>>>],
         [state |-> alongX, fline |-> <<<<b, 0>>, <<a, 0>>>>],
         [state |-> alongY, fline |-> <<<<0, a>>, <<0, b>>>>],
         [state |-> alongY, fline |-> <<<<0, b>>, <<0, a>>>>]}
        \cup (IF a # b THEN {}
              ELSE {[state |-> alongX, fline |-> <<<<a, 0>>, <<a, 1>>>>],
                    [state |-> alongY, fline |-> <<<<0, a>>, <<1, a>>>>]})

\* The variables of the heuristic modules and of their caller.
modules == <<variant, g_fline, g_walls, grid, find, lists, run, first,
             grid_of, last>>

\* nmoves is called for the racer's speed and each distance of its goal,
\* and h_nmoves for the racer as a car.
Estimate ==
    /\ estimate = <<>>
    /\ \E p \in Problems2D :
          estimate' = <<[nmoves   |-> [d \in goal_dist[1] .. goal_dist[2] |->
                                          nmoves(speed0, d)],
                         h_nmoves |-> h_nmoves(p.state, p.fline)]>>
    /\ UNCHANGED <<search, modules, speed0, goal_dist, position, speed,
                   moves, car, track, answer, drives>>

\* The racer makes a move: its speed changes by -1, 0 or 1, and it
\* advances by the new speed (racetrack.next_states, along one axis).
Move ==
    /\ estimate # <<>>
    /\ moves < MaxMoves
    /\ \E w \in {speed - 1, speed, speed + 1} :
          /\ speed' = w
          /\ position' = position + w
    /\ moves' = moves + 1
    /\ UNCHANGED <<search, modules, speed0, goal_dist, estimate, car, track,
                   answer, drives>>

\* fsearch.main is not running.
NoSearch ==
    /\ s0 = 0
    /\ strategy = "bf"
    /\ h_given = TRUE
    /\ verbose = 0
    /\ next_states = Unasked
    /\ goal_test = Unasked
    /\ h = Unasked
    /\ pc = "idle"
    /\ exc = ""
    /\ node_count = 0
    /\ nodes = <<>>
    /\ prunes = 0
    /\ frontier = <<>>
    /\ explored = <<>>
    /\ x = None
    /\ new = <<>>
    /\ n_prune = <<>>
    /\ f_prune = <<>>
    /\ e_prune = <<>>
    /\ result = <<>>
    /\ history = <<>>
    /\ rt_pc = "direct"
    /\ solution = Unassigned

\* A racer with any speed of the range and any goal within it.
InitMoves ==
    /\ NoSearch
    /\ variant = "sample_heuristics"
    /\ lists = <<>>
    /\ run = 0
    /\ first = FALSE
    /\ Imported
    /\ speed0 \in (-MaxV) .. MaxV
    /\ goal_dist \in {g \in ((-MaxD) .. MaxD) \X ((-MaxD) .. MaxD) :
                         g[1] <= g[2]}
    /\ estimate = <<>>
    /\ position = 0
    /\ speed = speed0
    /\ moves = 0
    /\ car = <<<<0, 0>>, <<0, 0>>>>
    /\ track = <<>>
    /\ answer = <<>>
    /\ drives = 0

NextMoves == Estimate \/ Move

SpecMoves == InitMoves /\ [][NextMoves]_vars

\* The racer is at rest within its goal.
AtRest == speed = 0 /\ goal_dist[1] <= position /\ position <= goal_dist[2]

\* C31: for every speed v and distance d of the range nmoves(v, d) returns
\* (it does not raise), and what it returns does not exceed the number of
\* moves of any run of the racer that comes to rest at distance d; and
\* h_nmoves, for the racer as a car, returns no more than the moves of any
\* run that comes to rest on the finish line.
C31_NmovesAdmissible ==
    estimate # <<>> =>
        /\ \A d \in DOMAIN estimate[1].nmoves :
              /\ estimate[1].nmoves[d] # <<>>
              /\ estimate[1].nmoves[d][1] >= 0
        /\ estimate[1].h_nmoves # <<>>
        /\ AtRest => /\ estimate[1].nmoves[position][1] <= moves
                     /\ estimate[1].h_nmoves[1] <= moves

\* A racer that started the wrong way has turned round and come to rest at
\* its goal in exactly the moves nmoves returned.
C31_Witness ==
    /\ estimate # <<>>
    /\ AtRest
    /\ speed0 < 0
    /\ position > 0
    /\ moves >= 1
    /\ estimate[1].nmoves[position] = <<moves>>

\* ============================================================ racetrack
\* A coordinate that intersect computes is a quotient of two integers, kept
\* here as <<numerator, denominator>>.  The code divides by float(...); a
\* quotient of small integers is compared with integers only, and such a
\* comparison comes out the same for the float as for the exact quotient.
Whole(n) == <<n, 1>>

\* a <= q for an integer a and a quotient q.
AtMost(a, q) == IF q[2] > 0 THEN a * q[2] <= q[1] ELSE a * q[2] >= q[1]

\* q <= b for a quotient q and an integer b.
AtLeast(b, q) == IF q[2] > 0 THEN q[1] <= b * q[2] ELSE q[1] >= b * q[2]

\* a <= q <= b (a chained comparison of line 146).
Chain(a, q, b) == AtMost(a, q) /\ AtLeast(b, q)

\* collinear_point_in_edge(point, edge) (racetrack.py, lines 137-148).
collinear_point_in_edge(point, edge) ==
    LET px == point[1]
        py == point[2]
        xa == edge[1][1]
        ya == edge[1][2]
        xb == edge[2][1]
        yb == edge[2][2]
    IN  /\ Chain(xa, px, xb) \/ Chain(xb, px, xa)
        /\ Chain(ya, py, yb) \/ Chain(yb, py, ya)

\* intersect(e1, e2) (lines 91-134).
intersect(e1, e2) ==
    LET x1a == e1[1][1]
        y1a == e1[1][2]
        x1b == e1[2][1]
        y1b == e1[2][2]
        x2a == e2[1][1]
        y2a == e2[1][2]
        x2b == e2[2][1]
        y2b == e2[2][2]
        dx1 == x1a - x1b
        dy1 == y1a - y1b
        dx2 == x2a - x2b
        dy2 == y2a - y2b
        ends == \/ collinear_point_in_edge(<<Whole(x1a), Whole(y1a)>>, e2)
                \/ collinear_point_in_edge(<<Whole(x1b), Whole(y1b)>>, e2)
                \/ collinear_point_in_edge(<<Whole(x2a), Whole(y2a)>>, e1)
                \/ collinear_point_in_edge(<<Whole(x2b), Whole(y2b)>>, e1)
        both(p) == /\ collinear_point_in_edge(p, e1)
                   /\ collinear_point_in_edge(p, e2)
    IN  IF dx1 = 0 /\ dx2 = 0
        THEN IF x1a # x2a THEN FALSE ELSE ends
        ELSE IF dx2 = 0
        THEN both(<<Whole(x2a), <<(x2a - x1a) * dy1 + y1a * dx1, dx1>>>>)
        ELSE IF dx1 = 0
        THEN both(<<Whole(x1a), <<(x1a - x2a) * dy2 + y2a * dx2, dx2>>>>)
        ELSE IF dy1 * dx2 = dx1 * dy2
        THEN IF dx2 * dx1 * (y2a - y1a) # dy2 * dx1 * x2a - dy1 * dx2 * x1a
             THEN FALSE
             ELSE ends
        ELSE both(<<<<dx2 * dx1 * (y2a - y1a) - dy2 * dx1 * x2a
                         + dy1 * dx2 * x1a,
                      dx2 * dy1 - dy2 * dx1>>,
                    <<dy2 * dy1 * (x2a - x1a) - dx2 * dy1 * y2a
                         + dx1 * dy2 * y1a,
                      dy2 * dx1 - dx2 * dy1>>>>)

\* racetrack.crash(move, walls) (lines 84-88), walls a list.
racetrack_crash(move, walls) ==
    \E i \in 1 .. Len(walls) : intersect(move, walls[i])

\* The nine changes of velocity in the order of the two loops of
\* next_states (lines 72-73).
Changes == <<<<0, 0>>, <<0, -1>>, <<0, 1>>, <<-1, 0>>, <<-1, -1>>, <<-1, 1>>,
             <<1, 0>>, <<1, -1>>, <<1, 1>>>>

\* The state that the i-th change of velocity leads to (lines 74-75).
Landing(state, i) ==
    LET wx == state[2][1] + Changes[i][1]
        wy == state[2][2] + Changes[i][2]
    IN  <<<<state[1][1] + wx, state[1][2] + wy>>, <<wx, wy>>>>

\* The states of a list whose indices are in keep, in the list's order.
RECURSIVE Kept(_, _, _)
Kept(state, keep, i) ==
    IF i > Len(Changes) THEN <<>>
    ELSE (IF i \in keep THEN <<Landing(state, i)>> ELSE <<>>)
         \o Kept(state, keep, i + 1)

\* next_states that asks of a move only whether it ends on a wall.
racetrack_next_states_landing(state, walls) ==
    Kept(state,
         {i \in 1 .. Len(Changes) :
             ~ racetrack_crash(<<Landing(state, i)[1], Landing(state, i)[1]>>,
                               walls)},
         1)

\* racetrack.next_states(state, walls) (lines 68-78).
racetrack_next_states(state, walls) ==
    Kept(state,
         {i \in 1 .. Len(Changes) :
             ~ racetrack_crash(<<state[1], Landing(state, i)[1]>>, walls)},
         1)

\* next_for_fsearch of racetrack.main (line 37), for main's walls.
next_for_fsearch(state, walls) ==
    LET states == racetrack_next_states(state, walls)
    IN  [i \in 1 .. Len(states) |-> <<states[i], 1>>]

\* fsearch asks for the successors of the state the car is in.
Successors ==
    /\ answer = <<>>
    /\ answer' = <<next_for_fsearch(car, track)>>
    /\ UNCHANGED <<search, modules, speed0, goal_dist, estimate, position,
                   speed, moves, car, track, drives>>

\* The car is driven to one of the successors.
Drive ==
    /\ answer # <<>>
    /\ drives < MaxDrives
    /\ \E i \in 1 .. Len(answer[1]) : car' = answer[1][i][1]
    /\ answer' = <<>>
    /\ drives' = drives + 1
    /\ UNCHANGED <<search, modules, speed0, goal_dist, estimate, position,
                   speed, moves, track>>

\* The points walls are drawn between, and the walls.
Points == (0 .. MaxPos) \X (0 .. MaxPos)
Walls == Points \X Points

\* The wall lists of 0 .. MaxWalls walls.
RECURSIVE Tracks(_)
Tracks(n) ==
    IF n = 0 THEN {<<>>}
    ELSE Tracks(n - 1)
         \cup {Append(t, w) : t \in {s \in Tracks(n - 1) : Len(s) = n - 1},
                              w \in Walls}

\* racetrack.main starts the car at rest (line 33) on a track.
InitTrack ==
    /\ NoSearch
    /\ variant = "sample_heuristics"
    /\ lists = <<>>
    /\ run = 0
    /\ first = FALSE
    /\ Imported
    /\ speed0 = 0
    /\ goal_dist = 0
    /\ estimate = <<>>
    /\ position = 0
    /\ speed = 0
    /\ moves = 0
    /\ car \in {<<p, <<0, 0>>>> : p \in Points}
    /\ track \in Tracks(MaxWalls)
    /\ answer = <<>>
    /\ drives = 0

NextTrack == Successors \/ Drive

SpecTrack == InitTrack /\ [][NextTrack]_vars

\* ------------------------------------------------------ segments meeting
\* Twice the signed area of the triangle p, q, r.
Turn(p, q, r) ==
    (q[1] - p[1]) * (r[2] - p[2]) - (q[2] - p[2]) * (r[1] - p[1])

Sign(n) == IF n > 0 THEN 1 ELSE IF n < 0 THEN -1 ELSE 0

\* r lies in the rectangle spanned by p and q.
Boxed(p, q, r) ==
    LET lo(a, b) == IF a < b THEN a ELSE b
        hi(a, b) == IF a < b THEN b ELSE a
    IN  /\ lo(p[1], q[1]) <= r[1] /\ r[1] <= hi(p[1], q[1])
        /\ lo(p[2], q[2]) <= r[2] /\ r[2] <= hi(p[2], q[2])

\* r is a point of the segment from p to q.
OnSegment(p, q, r) == Turn(p, q, r) = 0 /\ Boxed(p, q, r)

\* The segments e1 and e2 have a point in common: an end of one lies on the
\* other, or each separates the ends of the other strictly.
Meets(e1, e2) ==
    \/ OnSegment(e1[1], e1[2], e2[1])
    \/ OnSegment(e1[1], e1[2], e2[2])
    \/ OnSegment(e2[1], e2[2], e1[1])
    \/ OnSegment(e2[1], e2[2], e1[2])
    \/ /\ Sign(Turn(e1[1], e1[2], e2[1])) * Sign(Turn(e1[1], e1[2], e2[2])) = -1
       /\ Sign(Turn(e2[1], e2[2], e1[1])) * Sign(Turn(e2[1], e2[2], e1[2])) = -1

\* The states that the claim names: one for each velocity within 1 of the
\* car's in both coordinates whose move meets no wall.
Allowed(state, walls) ==
    {<<<<state[1][1] + wx, state[1][2] + wy>>, <<wx, wy>>>> :
        <<wx, wy>> \in
            {w \in (state[2][1] - 1 .. state[2][1] + 1)
                     \X (state[2][2] - 1 .. state[2][2] + 1) :
                \A i \in 1 .. Len(walls) :
                    ~ Meets(<<state[1],
                              <<state[1][1] + w[1], state[1][2] + w[2]>>>>,
                            walls[i])}}

\* C33: the successors that racetrack.main hands to fsearch for the car's
\* state are exactly the states reached with a velocity within 1 of the
\* car's in each coordinate by a move that meets no wall of the track; they
\* are at most 9, none is listed twice, and each comes with cost 1.
C33_RacetrackSuccessors ==
    answer # <<>> =>
        LET pairs == answer[1]
        IN  /\ {pairs[i][1] : i \in 1 .. Len(pairs)} = Allowed(car, track)
            /\ Len(pairs) <= 9
            /\ \A i, j \in 1 .. Len(pairs) :
                  pairs[i][1] = pairs[j][1] => i = j
            /\ \A i \in 1 .. Len(pairs) : pairs[i][2] = 1

\* The car, driven to speed, has successors, and a move is left out that
\* passes through a wall without ending on one.
C33_Witness ==
    /\ answer # <<>>
    /\ drives >= 1
    /\ Len(track) = 2
    /\ Len(answer[1]) >= 1
    /\ Len(answer[1]) < 9
    /\ \E i \in 1 .. Len(Changes) :
          LET to == Landing(car, i)
          IN  /\ \A k \in 1 .. Len(answer[1]) : answer[1][k][1] # to
              /\ \A w \in 1 .. Len(track) :
                    ~ Meets(<<to[1], to[1]>>, track[w])

====
